---- MODULE Spec2Model ----
(***************************************************************************)
(* Model of the project-management REST backend: projects with members and *)
(* pending invites, issues, comments.  The document store is the only      *)
(* shared state; every request is a process whose steps are the database   *)
(* round trips (the awaits) of its middleware and handler, so that         *)
(* requests interleave exactly where the code can be interleaved.          *)
(*                                                                         *)
(* Document-store behaviour modelled (mongoose 8, src/README.md:117):      *)
(*  - doc.save() sends only the modified paths.  A $push on an array bumps *)
(*    __v without checking it; a whole-array $set (assignment, splice)     *)
(*    checks __v in the filter and bumps it; a scalar $set does neither.   *)
(*    A save that matches no document fails (VersionError /                *)
(*    DocumentNotFoundError) and writes nothing.                           *)
(*  - unique indexes (Project.key, Issue.key) reject a duplicate insert or *)
(*    update (E11000).                                                     *)
(*  - a query on two dotted paths of an array of subdocuments, without     *)
(*    $elemMatch, matches when each condition is met by some element.      *)
(* An error thrown without res.status(...) is recorded as 500; the status *)
(* the error boundary (src/index.js:63) gives it enters no property.      *)
(* Request fields that no decision depends on (name, description, title,   *)
(* priority, tags, dueDate, role, content) are left out.                   *)
(***************************************************************************)
EXTENDS Integers, Sequences, FiniteSets, TLC

\* ------------------------------------------------------------------ bounds
MaxProjects == 1
MaxIssues == 1
MaxComments == 1
MaxTokens == 2
MaxConcRequests == 2
MaxRaceIssues == 3
MaxRaceProjects == 3
MaxAttachments == 2
\* Saves of a comment that replace its attachment list (each increments __v).
MaxCommentEdits == 1

\* Requests of the password-reset specification, forgotPassword or resetPassword.
MaxAuthRequests == 3
\* Requests, one after another, of the specification of the id-scoped routes.
MaxScopedRequests == 4
\* Reset tokens issued by getResetPasswordToken.
MaxResets == 2
MaxSeqRequests == 3
\* Invite tokens of the specification of invitations over time.
MaxInviteTokens == 3

\* ---------------------------------------------------------------- universe
Users == {"alice", "bob", "carol"}
\* Users are interchangeable: projects are created by alice.
Creators == {"alice"}
NoUser == "null"
Undefined == "undefined"

emailOf(u) ==
  CASE u = "alice" -> "alice@x.com"
    [] u = "bob" -> "bob@x.com"
    [] OTHER -> "carol@x.com"

Emails == {emailOf(u) : u \in Users}

\* User.findOne({ email }): the registered user with this email, if any.
userByEmail(e) == {u \in Users : emailOf(u) = e}

\* Keys a request may carry, and String.prototype.toUpperCase on them.
ReqKeys == {"demo", "ops"}

toUpperCase(k) ==
  CASE k = "demo" -> "DEMO"
    [] k = "ops" -> "OPS"
    [] OTHER -> k

\* req.user.role: carol is the platform admin.
roleOf(u) == IF u = "carol" THEN "admin" ELSE "developer"

\* Upload limits and the files a request may carry.
maxSize == 25 * 1024 * 1024
validTypes == {"image/jpeg", "image/png", "image/gif", "application/pdf", "video/mp4"}
ReqSizes == {maxSize, maxSize + 1}
ReqTypes == {"image/png", "text/plain"}

Statuses == {"todo", "inprogress", "done"}
ReqStatuses == {"done", "bogus"}

\* dueDate: null, or the one date requests carry.
NoDate == "null"
DueDates == {"2026-12-31"}

\* The instants at which requests arrive (days); an invite lives InviteTTL days.
Instants == {0, 7}
InviteTTL == 7

Slots == {1, 2}

VARIABLES
  projects,   \* Project collection: id -> document
  issues,     \* Issue collection: id -> document
  comments,   \* Comment collection: id -> document
  attachments,\* Attachment collection: id -> metadata record
  nextPid,    \* next unused Project _id
  nextIid,    \* next unused Issue _id
  nextCid,    \* next unused Comment _id
  nextTok,    \* next unused invite token
  nextAid,    \* next unused Attachment _id (and publicId of its stored object)
  storage,    \* object storage: the publicIds whose object is stored
  now,        \* the clock
  reqs,       \* requests in flight: slot -> request (position and locals)
  resp,       \* slot -> the last response sent on it
  started,    \* requests started so far (bounded in the concurrent specification)
  gone,       \* issue ids deleted by a completed deleteIssue -> their attachments list
  accepted,   \* invite tokens whose acceptInvitation ended with 200
  users,      \* User collection: user -> the password-reset fields of the document
  inbox       \* reset tokens issued and mailed, and each user's last forgotPassword

vars == <<projects, issues, comments, attachments, nextPid, nextIid, nextCid, nextTok, now,
          reqs, resp, started, gone, accepted, nextAid, storage, users, inbox>>

db == <<projects, issues, comments, attachments>>
ids == <<nextPid, nextIid, nextCid, nextTok, nextAid>>
auth == <<users, inbox>>

\* ------------------------------------------------------------------ helpers
Range(s) == {s[i] : i \in 1..Len(s)}

Without(f, x) == [y \in (DOMAIN f) \ {x} |-> f[y]]

\* A registered user with no reset pending.
NoToken == <<>>
NoExpire == -1
Registered ==
  [password |-> "registered", resetPasswordToken |-> NoToken,
   resetPasswordExpire |-> NoExpire]

Idle ==
  [op |-> "none", pc |-> "idle", user |-> "none", pid |-> 0, iid |-> 0, cid |-> 0,
   arg |-> "none", status |-> "none", key |-> "none", tok |-> 0, n |-> 0,
   proj |-> <<>>, issue |-> <<>>, aid |-> 0, atts |-> <<>>, size |-> 0,
   mimetype |-> "none", comment |-> <<>>, hasAtts |-> FALSE,
   dueDate |-> Undefined]

NoResponse == [op |-> "none", user |-> "none", code |-> 0]

InFlight(s) == reqs[s].pc # "idle"

isMemberOf(project, u) == \E i \in 1..Len(project.member) : project.member[i] = u

isProjectOwner(project, u) == project.owner = u

ProjectSchemaPreSaveInverted(doc) ==
  IF doc.owner \in Range(doc.member)
    THEN [doc EXCEPT !.member = <<doc.owner>> \o @]
    ELSE doc

\* ProjectSchema.pre("save"): the owner is put at the head of member if missing.
ProjectSchemaPreSave(doc) ==
  IF doc.owner \notin Range(doc.member)
    THEN [doc EXCEPT !.member = <<doc.owner>> \o @]
    ELSE doc

\* ----------------------------------------------------------------- responses
Finish(s, code) ==
  /\ reqs' = [reqs EXCEPT ![s] = Idle]
  /\ resp' = [resp EXCEPT ![s] = [op |-> reqs[s].op, user |-> reqs[s].user,
                                   code |-> code]]

Goto(s, pc) ==
  /\ reqs' = [reqs EXCEPT ![s].pc = pc]
  /\ UNCHANGED resp

\* A response with nothing stored changed.
Fail(s, code) ==
  /\ Finish(s, code)
  /\ UNCHANGED <<db, ids, now, started, gone, accepted,
                 storage, auth>>

At(s, op, pc) == reqs[s].op = op /\ reqs[s].pc = pc

checkProjectOwnerForbidFirst(s, next) ==
  LET r == reqs[s] IN
  IF r.pid \notin DOMAIN projects \/ ~isProjectOwner(projects[r.pid], r.user)
    THEN Fail(s, 403)
  ELSE Goto(s, next)
       /\ UNCHANGED <<db, ids, now, started, gone, accepted, storage, auth>>

\* checkProjectOwner: 404 when the project is missing, 403 when the requester is
\* not its owner.
checkProjectOwner(s, next) ==
  LET r == reqs[s] IN
  IF r.pid \notin DOMAIN projects THEN Fail(s, 404)
  ELSE IF ~isProjectOwner(projects[r.pid], r.user) THEN Fail(s, 403)
  ELSE Goto(s, next) /\ UNCHANGED <<db, ids, now, started, gone, accepted,
                                    storage, auth>>

\* checkProjectMember: 404 when the project is missing, 403 when the requester
\* is not in its member list.
checkProjectMember(s, next) ==
  LET r == reqs[s] IN
  IF r.pid \notin DOMAIN projects THEN Fail(s, 404)
  ELSE IF ~isMemberOf(projects[r.pid], r.user) THEN Fail(s, 403)
  ELSE Goto(s, next) /\ UNCHANGED <<db, ids, now, started, gone, accepted,
                                    storage, auth>>

\* -------------------------------------------------------------- createProject
createProject_find(s) ==
  /\ At(s, "createProject", "findKey")
  /\ IF \E p \in DOMAIN projects : projects[p].key = toUpperCase(reqs[s].key)
       THEN Fail(s, 400)
       ELSE Goto(s, "create") /\ UNCHANGED <<db, ids, now, started, gone, accepted,
                                             storage, auth>>

createProject_createNoIndex(s) ==
  /\ At(s, "createProject", "create")
  /\ LET r == reqs[s]
         doc == ProjectSchemaPreSave(
                  [key |-> toUpperCase(r.key), owner |-> r.user,
                   member |-> <<r.user>>, pendingInvites |-> <<>>, v |-> 0])
     IN /\ projects' = projects @@ (nextPid :> doc)
        /\ nextPid' = nextPid + 1
        /\ Finish(s, 201)
        /\ UNCHANGED <<issues, comments, attachments, nextIid, nextCid, nextTok, now,
                       started, gone, accepted,
                       storage, nextAid,
                 auth>>

\* Project.create: the pre-save hook runs, then the insert, which the unique
\* index on key rejects when another project holds the key.
createProject_create(s) ==
  /\ At(s, "createProject", "create")
  /\ LET r == reqs[s]
         doc == ProjectSchemaPreSave(
                  [key |-> toUpperCase(r.key), owner |-> r.user,
                   member |-> <<r.user>>, pendingInvites |-> <<>>, v |-> 0])
     IN IF \E p \in DOMAIN projects : projects[p].key = doc.key
          THEN Fail(s, 500)
          ELSE /\ projects' = projects @@ (nextPid :> doc)
               /\ nextPid' = nextPid + 1
               /\ Finish(s, 201)
               /\ UNCHANGED <<issues, comments, attachments, nextIid, nextCid, nextTok, now,
                              started, gone, accepted,
                              storage, nextAid,
                 auth>>

\* -------------------------------------------------------------- updateProject
updateProject_mw(s) ==
  /\ At(s, "updateProject", "mw")
  /\ checkProjectOwner(s, "load")

updateProject_load(s) ==
  /\ At(s, "updateProject", "load")
  /\ LET r == reqs[s] IN
     IF r.pid \notin DOMAIN projects THEN Fail(s, 404)
     ELSE IF ~isProjectOwner(projects[r.pid], r.user) THEN Fail(s, 403)
     ELSE /\ reqs' = [reqs EXCEPT
                 ![s].proj = <<projects[r.pid]>>,
                 ![s].pc = IF r.key # Undefined
                              /\ toUpperCase(r.key) # projects[r.pid].key
                             THEN "findKey" ELSE "save"]
          /\ UNCHANGED <<resp, db, ids, now, started, gone, accepted,
                         storage, auth>>

updateProject_find(s) ==
  /\ At(s, "updateProject", "findKey")
  /\ IF \E p \in DOMAIN projects : projects[p].key = toUpperCase(reqs[s].key)
       THEN Fail(s, 400)
       ELSE Goto(s, "save") /\ UNCHANGED <<db, ids, now, started, gone, accepted,
                                           storage, auth>>

\* project.save() with key as the only path that can be modified: a scalar
\* $set, sent only when the value changed.
updateProject_save(s) ==
  /\ At(s, "updateProject", "save")
  /\ LET r == reqs[s]
         local == ProjectSchemaPreSave(r.proj[1])
         newKey == IF r.key # Undefined THEN toUpperCase(r.key) ELSE local.key
     IN IF newKey = local.key /\ local.member = r.proj[1].member
          THEN Fail(s, 200)
        ELSE IF r.pid \notin DOMAIN projects THEN Fail(s, 500)
        ELSE IF \E p \in (DOMAIN projects) \ {r.pid} : projects[p].key = newKey
          THEN Fail(s, 500)
        ELSE /\ projects' = [projects EXCEPT ![r.pid].key = newKey]
             /\ Finish(s, 200)
             /\ UNCHANGED <<issues, comments, attachments, ids, now, started, gone, accepted,
                            storage, auth>>

\* -------------------------------------------------------------- deleteProject
deleteProject_mw(s) ==
  /\ At(s, "deleteProject", "mw")
  /\ checkProjectOwner(s, "load")

deleteProject_load(s) ==
  /\ At(s, "deleteProject", "load")
  /\ LET r == reqs[s] IN
     IF r.pid \notin DOMAIN projects THEN Fail(s, 404)
     ELSE IF ~isProjectOwner(projects[r.pid], r.user) THEN Fail(s, 403)
     ELSE Goto(s, "deleteIssues") /\ UNCHANGED <<db, ids, now, started, gone, accepted,
                                                 storage, auth>>

\* Issue.deleteMany({ projectId })
deleteProject_issues(s) ==
  /\ At(s, "deleteProject", "deleteIssues")
  /\ issues' = [i \in {j \in DOMAIN issues : issues[j].projectId # reqs[s].pid}
                  |-> issues[i]]
  /\ Goto(s, "delete")
  /\ UNCHANGED <<projects, comments, attachments, ids, now, started, gone, accepted,
                 storage, auth>>

\* Project.findByIdAndDelete
deleteProject_delete(s) ==
  /\ At(s, "deleteProject", "delete")
  /\ projects' = Without(projects, reqs[s].pid)
  /\ Finish(s, 200)
  /\ UNCHANGED <<issues, comments, attachments, ids, now, started, gone, accepted,
                 storage, auth>>

\* --------------------------------------------------------------- inviteMember
inviteMember_mw(s) ==
  /\ At(s, "inviteMember", "mw")
  /\ checkProjectOwner(s, "load")

\* findById, User.findOne, the two checks, then the push on the loaded document.
inviteMember_load(s) ==
  /\ At(s, "inviteMember", "load")
  /\ LET r == reqs[s] IN
     IF r.pid \notin DOMAIN projects THEN Fail(s, 404)
     ELSE LET project == projects[r.pid] IN
       IF ~isProjectOwner(project, r.user) THEN Fail(s, 403)
       ELSE IF \E u \in userByEmail(r.arg) : isMemberOf(project, u) THEN Fail(s, 400)
       ELSE IF \E i \in 1..Len(project.pendingInvites) :
                 project.pendingInvites[i].email = r.arg THEN Fail(s, 400)
       ELSE /\ reqs' = [reqs EXCEPT
                   ![s].pc = "save",
                   ![s].tok = nextTok,
                   ![s].proj = <<[project EXCEPT !.pendingInvites =
                       Append(@, [email |-> r.arg, token |-> nextTok,
                                  expiresAt |-> now + InviteTTL])]>>]
            /\ nextTok' = nextTok + 1
            /\ UNCHANGED <<resp, db, nextPid, nextIid, nextCid, now, started, gone, accepted,
                           storage, nextAid,
                 auth>>

\* project.save() after pendingInvites.push: a $push of the new invite, __v
\* bumped and not checked.
inviteMember_save(s) ==
  /\ At(s, "inviteMember", "save")
  /\ LET r == reqs[s]
         local == ProjectSchemaPreSave(r.proj[1])
         invite == local.pendingInvites[Len(local.pendingInvites)]
     IN IF r.pid \notin DOMAIN projects THEN Fail(s, 500)
        ELSE /\ projects' = [projects EXCEPT
                    ![r.pid].pendingInvites = Append(@, invite),
                    ![r.pid].member = IF local.member = r.proj[1].member
                                        THEN @ ELSE local.member,
                    ![r.pid].v = @ + 1]
             /\ reqs' = [reqs EXCEPT ![s].pc = "email",
                                     ![s].proj = <<[local EXCEPT !.v = @ + 1]>>]
             /\ UNCHANGED <<resp, issues, comments, attachments, ids, now, started, gone, accepted,
                            storage, auth>>

\* sendEmail resolves (ok) or throws.
inviteMember_email(s, ok) ==
  /\ At(s, "inviteMember", "email")
  /\ IF ok THEN Fail(s, 200)
     ELSE Goto(s, "rollback") /\ UNCHANGED <<db, ids, now, started, gone, accepted,
                                             storage, auth>>

\* The catch block: pendingInvites is reassigned without the new invite and
\* saved, a whole-array $set that checks __v.
inviteMember_rollback(s) ==
  /\ At(s, "inviteMember", "rollback")
  /\ LET r == reqs[s]
         local == r.proj[1]
         kept == SelectSeq(local.pendingInvites, LAMBDA inv : inv.token # r.tok)
     IN IF r.pid \notin DOMAIN projects \/ projects[r.pid].v # local.v
          THEN Fail(s, 500)
          ELSE /\ projects' = [projects EXCEPT ![r.pid].pendingInvites = kept,
                                               ![r.pid].v = @ + 1]
               /\ Finish(s, 500)
               /\ UNCHANGED <<issues, comments, attachments, ids, now, started, gone, accepted,
                              storage, auth>>

\* ----------------------------------------------------------- acceptInvitation
\* Project.findOne({ "pendingInvites.token": token,
\*                   "pendingInvites.expiresAt": { $gt: new Date() } }): two
\* conditions on dotted paths, each met by some element of the array.
acceptInvitationMatch(project, token, t) ==
  /\ \E i \in 1..Len(project.pendingInvites) : project.pendingInvites[i].token = token
  /\ \E j \in 1..Len(project.pendingInvites) : project.pendingInvites[j].expiresAt > t

acceptInvitation_loadAnyEmail(s) ==
  /\ At(s, "acceptInvitation", "load")
  /\ LET r == reqs[s]
         found == {p \in DOMAIN projects : acceptInvitationMatch(projects[p], r.tok, now)}
     IN IF found = {} THEN Fail(s, 400)
        ELSE LET p == CHOOSE q \in found : TRUE
                 project == projects[p]
                 invite == project.pendingInvites[
                             CHOOSE i \in 1..Len(project.pendingInvites) :
                               project.pendingInvites[i].token = r.tok]
             IN IF FALSE THEN Fail(s, 403)
                ELSE /\ reqs' = [reqs EXCEPT
                            ![s].pc = "save",
                            ![s].pid = p,
                            ![s].n = IF isMemberOf(project, r.user) THEN 0 ELSE 1,
                            ![s].proj = <<[project EXCEPT
                                !.member = IF isMemberOf(project, r.user)
                                             THEN @ ELSE Append(@, r.user),
                                !.pendingInvites =
                                  SelectSeq(@, LAMBDA inv : inv.token # r.tok)]>>]
                     /\ UNCHANGED <<resp, db, ids, now, started, gone, accepted,
                                    storage, auth>>

acceptInvitation_load(s) ==
  /\ At(s, "acceptInvitation", "load")
  /\ LET r == reqs[s]
         found == {p \in DOMAIN projects : acceptInvitationMatch(projects[p], r.tok, now)}
     IN IF found = {} THEN Fail(s, 400)
        ELSE LET p == CHOOSE q \in found : TRUE
                 project == projects[p]
                 invite == project.pendingInvites[
                             CHOOSE i \in 1..Len(project.pendingInvites) :
                               project.pendingInvites[i].token = r.tok]
             IN IF invite.email # emailOf(r.user) THEN Fail(s, 403)
                ELSE /\ reqs' = [reqs EXCEPT
                            ![s].pc = "save",
                            ![s].pid = p,
                            ![s].n = IF isMemberOf(project, r.user) THEN 0 ELSE 1,
                            ![s].proj = <<[project EXCEPT
                                !.member = IF isMemberOf(project, r.user)
                                             THEN @ ELSE Append(@, r.user),
                                !.pendingInvites =
                                  SelectSeq(@, LAMBDA inv : inv.token # r.tok)]>>]
                     /\ UNCHANGED <<resp, db, ids, now, started, gone, accepted,
                                    storage, auth>>

acceptInvitation_saveKeepInvite(s) ==
  /\ At(s, "acceptInvitation", "save")
  /\ LET r == reqs[s]
         local == ProjectSchemaPreSave(r.proj[1])
     IN IF r.pid \notin DOMAIN projects \/ projects[r.pid].v # local.v
          THEN Fail(s, 500)
          ELSE /\ projects' = [projects EXCEPT
                      ![r.pid].member = IF r.n = 1 THEN Append(@, r.user) ELSE @,
                      ![r.pid].v = @ + 1]
               /\ accepted' = accepted \cup {r.tok}
               /\ Finish(s, 200)
               /\ UNCHANGED <<issues, comments, attachments, ids, now, started, gone,
                              storage, auth>>

acceptInvitation_saveUnversioned(s) ==
  /\ At(s, "acceptInvitation", "save")
  /\ LET r == reqs[s]
         local == ProjectSchemaPreSave(r.proj[1])
     IN IF r.pid \notin DOMAIN projects THEN Fail(s, 500)
        ELSE /\ projects' = [projects EXCEPT
                    ![r.pid].member = IF r.n = 1 THEN Append(@, r.user) ELSE @,
                    ![r.pid].pendingInvites = local.pendingInvites,
                    ![r.pid].v = @ + 1]
             /\ accepted' = accepted \cup {r.tok}
             /\ Finish(s, 200)
             /\ UNCHANGED <<issues, comments, attachments, ids, now, started, gone,
                            storage, auth>>

\* project.save(): $push member (when pushed), $set pendingInvites; the $set of
\* an array puts __v in the filter, so the save fails when the stored document
\* changed its arrays since it was loaded.
acceptInvitation_save(s) ==
  /\ At(s, "acceptInvitation", "save")
  /\ LET r == reqs[s]
         local == ProjectSchemaPreSave(r.proj[1])
     IN IF r.pid \notin DOMAIN projects \/ projects[r.pid].v # local.v
          THEN Fail(s, 500)
          ELSE /\ projects' = [projects EXCEPT
                      ![r.pid].member = IF local.member # r.proj[1].member
                                          THEN local.member
                                        ELSE IF r.n = 1 THEN Append(@, r.user) ELSE @,
                      ![r.pid].pendingInvites = local.pendingInvites,
                      ![r.pid].v = @ + 1]
               /\ accepted' = accepted \cup {r.tok}
               /\ Finish(s, 200)
               /\ UNCHANGED <<issues, comments, attachments, ids, now, started, gone,
                              storage, auth>>

\* --------------------------------------------------------------- removeMember
removeMember_mw(s) ==
  /\ At(s, "removeMember", "mw")
  /\ checkProjectOwner(s, "load")

removeMember_loadNoIndexCheck(s) ==
  /\ At(s, "removeMember", "load")
  /\ LET r == reqs[s] IN
     IF r.pid \notin DOMAIN projects THEN Fail(s, 404)
     ELSE LET project == projects[r.pid] IN
       IF ~isProjectOwner(project, r.user) THEN Fail(s, 403)
       ELSE IF r.arg = r.user THEN Fail(s, 400)
       ELSE LET memberIndex == IF ~isMemberOf(project, r.arg)
                                 THEN Len(project.member)
                               ELSE CHOOSE i \in 1..Len(project.member) :
                                 /\ project.member[i] = r.arg
                                 /\ \A j \in 1..(i - 1) : project.member[j] # r.arg
            IN /\ reqs' = [reqs EXCEPT
                      ![s].pc = "save",
                      ![s].proj = <<[project EXCEPT !.member =
                          SubSeq(@, 1, memberIndex - 1)
                            \o SubSeq(@, memberIndex + 1, Len(@))]>>]
               /\ UNCHANGED <<resp, db, ids, now, started, gone, accepted,
                              storage, auth>>

removeMember_load(s) ==
  /\ At(s, "removeMember", "load")
  /\ LET r == reqs[s] IN
     IF r.pid \notin DOMAIN projects THEN Fail(s, 404)
     ELSE LET project == projects[r.pid] IN
       IF ~isProjectOwner(project, r.user) THEN Fail(s, 403)
       ELSE IF r.arg = r.user THEN Fail(s, 400)
       ELSE IF ~isMemberOf(project, r.arg) THEN Fail(s, 404)
       ELSE LET memberIndex == CHOOSE i \in 1..Len(project.member) :
                                 /\ project.member[i] = r.arg
                                 /\ \A j \in 1..(i - 1) : project.member[j] # r.arg
            IN /\ reqs' = [reqs EXCEPT
                      ![s].pc = "save",
                      ![s].proj = <<[project EXCEPT !.member =
                          SubSeq(@, 1, memberIndex - 1)
                            \o SubSeq(@, memberIndex + 1, Len(@))]>>]
               /\ UNCHANGED <<resp, db, ids, now, started, gone, accepted,
                              storage, auth>>

\* project.save() after member.splice: a whole-array $set that checks __v.
removeMember_save(s) ==
  /\ At(s, "removeMember", "save")
  /\ LET r == reqs[s]
         local == ProjectSchemaPreSave(r.proj[1])
     IN IF r.pid \notin DOMAIN projects \/ projects[r.pid].v # local.v
          THEN Fail(s, 500)
          ELSE /\ projects' = [projects EXCEPT ![r.pid].member = local.member,
                                               ![r.pid].v = @ + 1]
               /\ Finish(s, 200)
               /\ UNCHANGED <<issues, comments, attachments, ids, now, started, gone, accepted,
                              storage, auth>>

\* ------------------------------------------------------------ issue middleware
isReporterOrAssignee(issue, u) == issue.reporter = u \/ issue.assignee = u

isReporter(issue, u) == issue.reporter = u

isAssignee(issue, u) == issue.assignee = u

\* Issue.findById(id).populate("projectId") followed by
\* Project.findById(issue.projectId._id): when the project is gone the populated
\* field is null and reading its _id throws (500).
checkIssuePermission(s, next) ==
  LET r == reqs[s] IN
  IF r.iid \notin DOMAIN issues THEN Fail(s, 404)
  ELSE LET issue == issues[r.iid] IN
    IF issue.projectId \notin DOMAIN projects THEN Fail(s, 500)
    ELSE LET project == projects[issue.projectId] IN
      IF ~isMemberOf(project, r.user) THEN Fail(s, 403)
      ELSE IF /\ ~isProjectOwner(project, r.user)
              /\ ~isReporter(issue, r.user)
              /\ ~isAssignee(issue, r.user) THEN Fail(s, 403)
      ELSE Goto(s, next) /\ UNCHANGED <<db, ids, now, started, gone, accepted,
                                        storage, auth>>

checkIssueDeletePermission(s, next) ==
  LET r == reqs[s] IN
  IF r.iid \notin DOMAIN issues THEN Fail(s, 404)
  ELSE LET issue == issues[r.iid] IN
    IF issue.projectId \notin DOMAIN projects THEN Fail(s, 500)
    ELSE LET project == projects[issue.projectId] IN
      IF ~isProjectOwner(project, r.user) /\ ~isReporter(issue, r.user)
        THEN Fail(s, 403)
      ELSE Goto(s, next) /\ UNCHANGED <<db, ids, now, started, gone, accepted,
                                        storage, auth>>

getProjectFromIssue(s, next) ==
  LET r == reqs[s] IN
  IF r.iid \notin DOMAIN issues THEN Fail(s, 404)
  ELSE LET issue == issues[r.iid] IN
    IF issue.projectId \notin DOMAIN projects THEN Fail(s, 500)
    ELSE IF ~isMemberOf(projects[issue.projectId], r.user) THEN Fail(s, 403)
    ELSE Goto(s, next) /\ UNCHANGED <<db, ids, now, started, gone, accepted,
                                      storage, auth>>

\* ---------------------------------------------------------------- createIssue
createIssue_mw(s) ==
  /\ At(s, "createIssue", "mw")
  /\ checkProjectMember(s, "load")

createIssue_load(s) ==
  /\ At(s, "createIssue", "load")
  /\ LET r == reqs[s] IN
     IF r.pid \notin DOMAIN projects THEN Fail(s, 404)
     ELSE LET project == projects[r.pid] IN
       IF ~isMemberOf(project, r.user) THEN Fail(s, 403)
       ELSE IF r.arg # Undefined /\ r.arg # NoUser /\ ~isMemberOf(project, r.arg)
         THEN Fail(s, 400)
       ELSE /\ reqs' = [reqs EXCEPT ![s].pc = "count", ![s].proj = <<project>>]
            /\ UNCHANGED <<resp, db, ids, now, started, gone, accepted,
                           storage, auth>>

\* Issue.countDocuments({ projectId })
createIssue_count(s) ==
  /\ At(s, "createIssue", "count")
  /\ reqs' = [reqs EXCEPT
        ![s].pc = "create",
        ![s].n = Cardinality({i \in DOMAIN issues : issues[i].projectId = reqs[s].pid})]
  /\ UNCHANGED <<resp, db, ids, now, started, gone, accepted,
                 storage, auth>>

issueKeyFromCount(project, issueCount) == <<project.key, issueCount>>

\* The issue key `${project.key}-${issueCount + 1}`, as the pair it is built from.
issueKey(project, issueCount) == <<project.key, issueCount + 1>>

newIssue(s) ==
  LET r == reqs[s] IN
  [key |-> issueKey(r.proj[1], r.n), projectId |-> r.pid, reporter |-> r.user,
   assignee |-> IF r.arg = Undefined THEN NoUser ELSE r.arg,
   status |-> "todo", dueDate |-> NoDate, comments |-> <<>>, attachments |-> <<>>]

createIssue_createNoIndex(s) ==
  /\ At(s, "createIssue", "create")
  /\ issues' = issues @@ (nextIid :> newIssue(s))
  /\ nextIid' = nextIid + 1
  /\ Finish(s, 201)
  /\ UNCHANGED <<projects, comments, attachments, nextPid, nextCid, nextTok, now,
                 started, gone, accepted,
                 storage, nextAid,
                 auth>>

\* Issue.create: the unique index on key rejects a second issue with the key.
createIssue_create(s) ==
  /\ At(s, "createIssue", "create")
  /\ IF \E i \in DOMAIN issues : issues[i].key = newIssue(s).key
       THEN Fail(s, 500)
       ELSE /\ issues' = issues @@ (nextIid :> newIssue(s))
            /\ nextIid' = nextIid + 1
            /\ Finish(s, 201)
            /\ UNCHANGED <<projects, comments, attachments, nextPid, nextCid, nextTok,
                           now, started, gone, accepted,
                           storage, nextAid,
                 auth>>

\* ---------------------------------------------------------------- updateIssue
updateIssue_mw(s) ==
  /\ At(s, "updateIssue", "mw")
  /\ checkIssuePermission(s, "load")

updateIssue_loadTruthyOnly(s) ==
  /\ At(s, "updateIssue", "load")
  /\ LET r == reqs[s] IN
     IF r.iid \notin DOMAIN issues THEN Fail(s, 404)
     ELSE LET issue == issues[r.iid] IN
       IF issue.projectId \notin DOMAIN projects THEN Fail(s, 500)
       ELSE LET project == projects[issue.projectId] IN
         IF ~isMemberOf(project, r.user) THEN Fail(s, 403)
         ELSE IF /\ ~isProjectOwner(project, r.user)
                 /\ ~isReporter(issue, r.user)
                 /\ issue.assignee # r.user THEN Fail(s, 403)
         ELSE IF r.arg # Undefined /\ r.arg # NoUser /\ ~isMemberOf(project, r.arg)
           THEN Fail(s, 400)
         ELSE /\ reqs' = [reqs EXCEPT
                     ![s].pc = "save",
                     ![s].issue = <<[issue EXCEPT
                         !.status = IF r.status # Undefined THEN r.status ELSE @,
                         !.assignee = IF r.arg \notin {Undefined, NoUser} THEN r.arg
                                      ELSE @,
                         !.dueDate = IF r.dueDate # Undefined THEN r.dueDate
                                     ELSE @]>>]
              /\ UNCHANGED <<resp, db, ids, now, started, gone, accepted,
                             storage, auth>>

updateIssue_load(s) ==
  /\ At(s, "updateIssue", "load")
  /\ LET r == reqs[s] IN
     IF r.iid \notin DOMAIN issues THEN Fail(s, 404)
     ELSE LET issue == issues[r.iid] IN
       IF issue.projectId \notin DOMAIN projects THEN Fail(s, 500)
       ELSE LET project == projects[issue.projectId] IN
         IF ~isMemberOf(project, r.user) THEN Fail(s, 403)
         ELSE IF /\ ~isProjectOwner(project, r.user)
                 /\ ~isReporter(issue, r.user)
                 /\ issue.assignee # r.user THEN Fail(s, 403)
         ELSE IF r.arg # Undefined /\ r.arg # NoUser /\ ~isMemberOf(project, r.arg)
           THEN Fail(s, 400)
         ELSE /\ reqs' = [reqs EXCEPT
                     ![s].pc = "save",
                     ![s].issue = <<[issue EXCEPT
                         !.status = IF r.status # Undefined THEN r.status ELSE @,
                         !.assignee = IF r.arg # Undefined THEN r.arg ELSE @,
                         !.dueDate = IF r.dueDate # Undefined THEN r.dueDate
                                     ELSE @]>>]
              /\ UNCHANGED <<resp, db, ids, now, started, gone, accepted,
                             storage, auth>>

\* issue.save() of scalar paths: the modified ones are validated (status against
\* its enum) and $set; no __v check.  `modified` are the paths the handler changed.
issueSave(s, modified) ==
  LET r == reqs[s]
      local == r.issue[1]
  IN IF modified = {} THEN Fail(s, 200)
     ELSE IF "status" \in modified /\ local.status \notin Statuses THEN Fail(s, 500)
     ELSE IF r.iid \notin DOMAIN issues THEN Fail(s, 500)
     ELSE /\ issues' = [issues EXCEPT
                 ![r.iid].status = IF "status" \in modified THEN local.status ELSE @,
                 ![r.iid].assignee = IF "assignee" \in modified
                                       THEN local.assignee ELSE @,
                 ![r.iid].dueDate = IF "dueDate" \in modified
                                      THEN local.dueDate ELSE @]
          /\ Finish(s, 200)
          /\ UNCHANGED <<projects, comments, attachments, ids, now, started, gone, accepted,
                         storage, auth>>

updateIssue_save(s) ==
  /\ At(s, "updateIssue", "save")
  /\ issueSave(s, (IF reqs[s].status # Undefined THEN {"status"} ELSE {})
                  \cup (IF reqs[s].arg # Undefined THEN {"assignee"} ELSE {})
                  \cup (IF reqs[s].dueDate # Undefined THEN {"dueDate"} ELSE {}))

\* ---------------------------------------------------------------- assignIssue
\* router.put("/:id/assign", protect, checkIssuePermission, assignIssue)
assignIssue_mw(s) ==
  /\ At(s, "assignIssue", "mw")
  /\ checkIssuePermission(s, "load")

assignIssue_load(s) ==
  /\ At(s, "assignIssue", "load")
  /\ LET r == reqs[s] IN
     IF r.iid \notin DOMAIN issues THEN Fail(s, 404)
     ELSE LET issue == issues[r.iid] IN
       IF issue.projectId \notin DOMAIN projects THEN Fail(s, 500)
       ELSE LET project == projects[issue.projectId] IN
         IF ~isMemberOf(project, r.user) THEN Fail(s, 403)
         ELSE IF r.arg # NoUser /\ ~isMemberOf(project, r.arg) THEN Fail(s, 400)
         ELSE /\ reqs' = [reqs EXCEPT
                     ![s].pc = "save",
                     ![s].issue = <<[issue EXCEPT !.assignee = r.arg]>>]
              /\ UNCHANGED <<resp, db, ids, now, started, gone, accepted,
                             storage, auth>>

assignIssue_save(s) ==
  /\ At(s, "assignIssue", "save")
  /\ issueSave(s, {"assignee"})

\* ---------------------------------------------------------- updateIssueStatus
updateIssueStatus_mw(s) ==
  /\ At(s, "updateIssueStatus", "mw")
  /\ checkIssuePermission(s, "load")

updateIssueStatus_loadAnyActor(s) ==
  /\ At(s, "updateIssueStatus", "load")
  /\ LET r == reqs[s] IN
     IF r.iid \notin DOMAIN issues THEN Fail(s, 404)
     ELSE IF r.status \notin Statuses THEN Fail(s, 400)
     ELSE /\ reqs' = [reqs EXCEPT
                 ![s].pc = "save",
                 ![s].issue = <<[issues[r.iid] EXCEPT !.status = r.status]>>]
          /\ UNCHANGED <<resp, db, ids, now, started, gone, accepted,
                         storage, auth>>

updateIssueStatus_load(s) ==
  /\ At(s, "updateIssueStatus", "load")
  /\ LET r == reqs[s] IN
     IF r.iid \notin DOMAIN issues THEN Fail(s, 404)
     ELSE LET issue == issues[r.iid] IN
       IF issue.assignee = NoUser \/ issue.assignee # r.user THEN Fail(s, 403)
       ELSE IF r.status \notin Statuses THEN Fail(s, 400)
       ELSE /\ reqs' = [reqs EXCEPT
                   ![s].pc = "save",
                   ![s].issue = <<[issue EXCEPT !.status = r.status]>>]
            /\ UNCHANGED <<resp, db, ids, now, started, gone, accepted,
                           storage, auth>>

updateIssueStatus_save(s) ==
  /\ At(s, "updateIssueStatus", "save")
  /\ issueSave(s, {"status"})

\* ---------------------------------------------------------------- deleteIssue
deleteIssue_mw(s) ==
  /\ At(s, "deleteIssue", "mw")
  /\ checkIssueDeletePermission(s, "load")

deleteIssue_load(s) ==
  /\ At(s, "deleteIssue", "load")
  /\ LET r == reqs[s] IN
     IF r.iid \notin DOMAIN issues THEN Fail(s, 404)
     ELSE LET issue == issues[r.iid] IN
       IF issue.projectId \notin DOMAIN projects THEN Fail(s, 500)
       ELSE IF /\ ~isProjectOwner(projects[issue.projectId], r.user)
               /\ ~isReporter(issue, r.user) THEN Fail(s, 403)
       ELSE /\ reqs' = [reqs EXCEPT ![s].pc = "deleteComments",
                                    ![s].issue = <<issue>>]
            /\ UNCHANGED <<resp, db, ids, now, started, gone, accepted,
                           storage, auth>>

\* Comment.deleteMany({ issueId })
deleteIssue_comments(s) ==
  /\ At(s, "deleteIssue", "deleteComments")
  /\ comments' = [c \in {d \in DOMAIN comments : comments[d].issueId # reqs[s].iid}
                    |-> comments[c]]
  /\ Goto(s, "deleteAttachments")
  /\ UNCHANGED <<projects, issues, attachments, ids, now, started, gone, accepted,
                 storage, auth>>

\* Attachment.deleteMany({ _id: { $in: issue.attachments } })
deleteIssue_attachments(s) ==
  /\ At(s, "deleteIssue", "deleteAttachments")
  /\ attachments' = [a \in (DOMAIN attachments) \ Range(reqs[s].issue[1].attachments)
                       |-> attachments[a]]
  /\ Goto(s, "delete")
  /\ UNCHANGED <<projects, issues, comments, ids, now, started, gone, accepted,
                 storage, auth>>

\* Issue.findByIdAndDelete, then the 200 response.
deleteIssue_delete(s) ==
  /\ At(s, "deleteIssue", "delete")
  /\ issues' = Without(issues, reqs[s].iid)
  /\ gone' = IF reqs[s].iid \in DOMAIN gone THEN gone
             ELSE gone @@ (reqs[s].iid :> reqs[s].issue[1].attachments)
  /\ Finish(s, 200)
  /\ UNCHANGED <<projects, comments, attachments, ids, now, started, accepted,
                 storage, auth>>

\* -------------------------------------------------------------- createComment
createComment_mw(s) ==
  /\ At(s, "createComment", "mw")
  /\ getProjectFromIssue(s, "load")

createComment_load(s) ==
  /\ At(s, "createComment", "load")
  /\ LET r == reqs[s] IN
     IF r.iid \notin DOMAIN issues THEN Fail(s, 404)
     ELSE LET issue == issues[r.iid] IN
       IF issue.projectId \notin DOMAIN projects THEN Fail(s, 500)
       ELSE IF ~isMemberOf(projects[issue.projectId], r.user) THEN Fail(s, 403)
       ELSE /\ reqs' = [reqs EXCEPT
                   ![s].pc = IF Len(r.atts) > 0 THEN "validate" ELSE "create",
                   ![s].issue = <<issue>>]
            /\ UNCHANGED <<resp, db, ids, now, started, gone, accepted, storage, auth>>

createComment_validateSome(s) ==
  /\ At(s, "createComment", "validate")
  /\ LET r == reqs[s]
         validAttachments == {a \in DOMAIN attachments :
                                /\ a \in Range(r.atts)
                                /\ attachments[a].uploadedBy = r.user}
     IN IF Cardinality(validAttachments) = 0 THEN Fail(s, 400)
        ELSE Goto(s, "create")
             /\ UNCHANGED <<db, ids, now, started, gone, accepted, storage, auth>>

\* Attachment.find({ _id: { $in: attachments }, uploadedBy: req.user._id }) and
\* the comparison of the two lengths.
createComment_validate(s) ==
  /\ At(s, "createComment", "validate")
  /\ LET r == reqs[s]
         validAttachments == {a \in DOMAIN attachments :
                                /\ a \in Range(r.atts)
                                /\ attachments[a].uploadedBy = r.user}
     IN IF Cardinality(validAttachments) # Len(r.atts) THEN Fail(s, 400)
        ELSE Goto(s, "create")
             /\ UNCHANGED <<db, ids, now, started, gone, accepted, storage, auth>>

\* Comment.create, then comments.push on the loaded issue.
createComment_create(s) ==
  /\ At(s, "createComment", "create")
  /\ comments' = comments @@
        (nextCid :> [content |-> "first", author |-> reqs[s].user,
                     issueId |-> reqs[s].iid, attachment |-> reqs[s].atts, v |-> 0])
  /\ nextCid' = nextCid + 1
  /\ reqs' = [reqs EXCEPT ![s].pc = "save", ![s].cid = nextCid]
  /\ UNCHANGED <<resp, projects, issues, attachments, nextPid, nextIid, nextTok, now,
                 started, gone, accepted, storage, nextAid,
                 auth>>

\* issue.save() after comments.push: a $push, which fails when the issue is gone.
createComment_save(s) ==
  /\ At(s, "createComment", "save")
  /\ LET r == reqs[s] IN
     IF r.iid \notin DOMAIN issues THEN Fail(s, 500)
     ELSE /\ issues' = [issues EXCEPT ![r.iid].comments = Append(@, r.cid)]
          /\ Finish(s, 201)
          /\ UNCHANGED <<projects, comments, attachments, ids, now, started, gone,
                         accepted, storage, auth>>

\* -------------------------------------------------------------- deleteComment
checkCommentPermissionAllMethods(s, next) ==
  LET r == reqs[s] IN
  IF r.cid \notin DOMAIN comments THEN Fail(s, 404)
  ELSE LET comment == comments[r.cid] IN
    IF comment.issueId \notin DOMAIN issues THEN Fail(s, 500)
    ELSE IF issues[comment.issueId].projectId \notin DOMAIN projects THEN Fail(s, 500)
    ELSE LET project == projects[issues[comment.issueId].projectId] IN
      IF ~isMemberOf(project, r.user) THEN Fail(s, 403)
      ELSE IF ~isProjectOwner(project, r.user) /\ comment.author # r.user
        THEN Fail(s, 403)
      ELSE Goto(s, next)
           /\ UNCHANGED <<db, ids, now, started, gone, accepted, storage, auth>>

\* checkCommentPermission: Comment.findById populated through issueId and
\* projectId (reading through a missing issue or project throws), member check,
\* then owner or author for a non-GET request (getComment is the GET route).
checkCommentPermission(s, next) ==
  LET r == reqs[s] IN
  IF r.cid \notin DOMAIN comments THEN Fail(s, 404)
  ELSE LET comment == comments[r.cid] IN
    IF comment.issueId \notin DOMAIN issues THEN Fail(s, 500)
    ELSE IF issues[comment.issueId].projectId \notin DOMAIN projects THEN Fail(s, 500)
    ELSE LET project == projects[issues[comment.issueId].projectId] IN
      IF ~isMemberOf(project, r.user) THEN Fail(s, 403)
      ELSE IF /\ r.op # "getComment"
              /\ ~isProjectOwner(project, r.user) /\ comment.author # r.user
        THEN Fail(s, 403)
      ELSE Goto(s, next)
           /\ UNCHANGED <<db, ids, now, started, gone, accepted, storage, auth>>

deleteComment_mw(s) ==
  /\ At(s, "deleteComment", "mw")
  /\ checkCommentPermission(s, "load")

deleteComment_load(s) ==
  /\ At(s, "deleteComment", "load")
  /\ LET r == reqs[s] IN
     IF r.cid \notin DOMAIN comments THEN Fail(s, 404)
     ELSE LET comment == comments[r.cid] IN
       IF comment.issueId \notin DOMAIN issues THEN Fail(s, 500)
       ELSE IF issues[comment.issueId].projectId \notin DOMAIN projects THEN Fail(s, 500)
       ELSE IF /\ ~isProjectOwner(projects[issues[comment.issueId].projectId], r.user)
               /\ comment.author # r.user THEN Fail(s, 403)
       ELSE /\ reqs' = [reqs EXCEPT ![s].pc = "pull", ![s].comment = <<comment>>]
            /\ UNCHANGED <<resp, db, ids, now, started, gone, accepted, storage, auth>>

\* Issue.findByIdAndUpdate(comment.issueId._id, { $pull: { comments: comment._id } })
deleteComment_pull(s) ==
  /\ At(s, "deleteComment", "pull")
  /\ LET r == reqs[s]
         i == r.comment[1].issueId
     IN issues' = IF i \in DOMAIN issues
                    THEN [issues EXCEPT ![i].comments =
                            SelectSeq(@, LAMBDA c : c # r.cid)]
                    ELSE issues
  /\ Goto(s, IF Len(reqs[s].comment[1].attachment) > 0 THEN "deleteAttachments"
             ELSE "delete")
  /\ UNCHANGED <<projects, comments, attachments, ids, now, started, gone, accepted,
                 storage, auth>>

\* Attachment.deleteMany({ _id: { $in: comment.attachment } })
deleteComment_attachments(s) ==
  /\ At(s, "deleteComment", "deleteAttachments")
  /\ attachments' = [a \in (DOMAIN attachments) \ Range(reqs[s].comment[1].attachment)
                       |-> attachments[a]]
  /\ Goto(s, "delete")
  /\ UNCHANGED <<projects, issues, comments, ids, now, started, gone, accepted,
                 storage, auth>>

\* Comment.findByIdAndDelete, then the 200 response.
deleteComment_delete(s) ==
  /\ At(s, "deleteComment", "delete")
  /\ comments' = [c \in (DOMAIN comments) \ {reqs[s].cid} |-> comments[c]]
  /\ Finish(s, 200)
  /\ UNCHANGED <<projects, issues, attachments, ids, now, started, gone, accepted,
                 storage, auth>>

\* ----------------------------------------------------------------- getComment
getComment_mw(s) ==
  /\ At(s, "getComment", "mw")
  /\ checkCommentPermission(s, "load")

\* Comment.findById populated, 404, the member check, then the 200 response.
getComment_load(s) ==
  /\ At(s, "getComment", "load")
  /\ LET r == reqs[s] IN
     IF r.cid \notin DOMAIN comments THEN Fail(s, 404)
     ELSE LET comment == comments[r.cid] IN
       IF comment.issueId \notin DOMAIN issues THEN Fail(s, 500)
       ELSE IF issues[comment.issueId].projectId \notin DOMAIN projects THEN Fail(s, 500)
       ELSE IF ~isMemberOf(projects[issues[comment.issueId].projectId], r.user)
         THEN Fail(s, 403)
       ELSE Fail(s, 200)

\* -------------------------------------------------------------- updateComment
updateComment_mw(s) ==
  /\ At(s, "updateComment", "mw")
  /\ checkCommentPermission(s, "load")

updateComment_load(s) ==
  /\ At(s, "updateComment", "load")
  /\ LET r == reqs[s] IN
     IF r.cid \notin DOMAIN comments THEN Fail(s, 404)
     ELSE LET comment == comments[r.cid] IN
       IF comment.issueId \notin DOMAIN issues THEN Fail(s, 500)
       ELSE IF issues[comment.issueId].projectId \notin DOMAIN projects THEN Fail(s, 500)
       ELSE IF /\ ~isProjectOwner(projects[issues[comment.issueId].projectId], r.user)
               /\ comment.author # r.user THEN Fail(s, 403)
       ELSE /\ reqs' = [reqs EXCEPT
                   ![s].pc = IF r.hasAtts /\ Len(r.atts) > 0 THEN "validate" ELSE "save",
                   ![s].comment = <<comment>>]
            /\ UNCHANGED <<resp, db, ids, now, started, gone, accepted, storage, auth>>

\* Attachment.find({ _id: { $in: attachments }, uploadedBy: req.user._id }) and
\* the comparison of the two lengths.
updateComment_validate(s) ==
  /\ At(s, "updateComment", "validate")
  /\ LET r == reqs[s]
         validAttachments == {a \in DOMAIN attachments :
                                /\ a \in Range(r.atts)
                                /\ attachments[a].uploadedBy = r.user}
     IN IF Cardinality(validAttachments) # Len(r.atts) THEN Fail(s, 400)
        ELSE Goto(s, "save")
             /\ UNCHANGED <<db, ids, now, started, gone, accepted, storage, auth>>

\* comment.content = content || comment.content, comment.attachment = attachments
\* unless undefined, comment.save(): nothing is sent when nothing was modified;
\* the assigned array is a $set that tests and increments __v.
updateComment_save(s) ==
  /\ At(s, "updateComment", "save")
  /\ LET r == reqs[s]
         local == r.comment[1]
         content == IF r.arg # Undefined THEN r.arg ELSE local.content
         attachment == IF r.hasAtts THEN r.atts ELSE local.attachment
     IN IF content = local.content /\ attachment = local.attachment THEN Fail(s, 200)
        ELSE IF r.cid \notin DOMAIN comments THEN Fail(s, 500)
        ELSE IF attachment # local.attachment /\ comments[r.cid].v # local.v
          THEN Fail(s, 500)
        ELSE /\ comments' = [comments EXCEPT
                  ![r.cid].content = content,
                  ![r.cid].attachment =
                     IF attachment # local.attachment THEN attachment ELSE @,
                  ![r.cid].v = IF attachment # local.attachment THEN @ + 1 ELSE @]
             /\ Finish(s, 200)
             /\ UNCHANGED <<projects, issues, attachments, ids, now, started, gone,
                            accepted, storage, auth>>

\* ----------------------------------------------------------- uploadAttachment
uploadAttachment_uploadIgnoreFailure(s, ok) ==
  /\ At(s, "uploadAttachment", "upload")
  /\ LET r == reqs[s] IN
     IF r.arg = Undefined THEN Fail(s, 400)
     ELSE IF r.size > maxSize THEN Fail(s, 400)
     ELSE IF r.mimetype \notin validTypes THEN Fail(s, 400)
     ELSE /\ storage' = IF ok THEN storage \cup {nextAid} ELSE storage
          /\ nextAid' = nextAid + 1
          /\ reqs' = [reqs EXCEPT ![s].pc = "create", ![s].aid = nextAid]
          /\ UNCHANGED <<resp, db, nextPid, nextIid, nextCid, nextTok, now, started, gone,
                         accepted,
                 auth>>

\* The three validations, then cloudinary.v2.uploader.upload, which stores the
\* object (ok) or throws.
uploadAttachment_upload(s, ok) ==
  /\ At(s, "uploadAttachment", "upload")
  /\ LET r == reqs[s] IN
     IF r.arg = Undefined THEN Fail(s, 400)
     ELSE IF r.size > maxSize THEN Fail(s, 400)
     ELSE IF r.mimetype \notin validTypes THEN Fail(s, 400)
     ELSE IF ~ok THEN Fail(s, 500)
     ELSE /\ storage' = storage \cup {nextAid}
          /\ nextAid' = nextAid + 1
          /\ reqs' = [reqs EXCEPT ![s].pc = "create", ![s].aid = nextAid]
          /\ UNCHANGED <<resp, db, nextPid, nextIid, nextCid, nextTok, now, started, gone,
                         accepted,
                 auth>>

\* Attachment.create with the publicId of the stored object, then the 201.
uploadAttachment_create(s) ==
  /\ At(s, "uploadAttachment", "create")
  /\ attachments' = attachments @@
        (reqs[s].aid :> [uploadedBy |-> reqs[s].user, publicId |-> reqs[s].aid])
  /\ Finish(s, 201)
  /\ UNCHANGED <<projects, issues, comments, ids, now, started, gone, accepted, storage, auth>>

\* ----------------------------------------------------------- deleteAttachment
isOwnerOrAnyRole(attachment, u) ==
  attachment.uploadedBy = u \/ roleOf(u) \in {"admin", "developer"}

\* isOwner || isAdmin
isOwnerOrAdmin(attachment, u) ==
  attachment.uploadedBy = u \/ roleOf(u) = "admin"

\* checkAttachmentPermission, imported by the route from projectMiddleware.js,
\* which does not define it: the uploader-or-admin gate the specification gives
\* attachment deletion.
checkAttachmentPermission(s, next) ==
  LET r == reqs[s] IN
  IF r.aid \notin DOMAIN attachments THEN Fail(s, 404)
  ELSE IF ~isOwnerOrAdmin(attachments[r.aid], r.user) THEN Fail(s, 403)
  ELSE Goto(s, next) /\ UNCHANGED <<db, ids, now, started, gone, accepted, storage, auth>>

deleteAttachment_mw(s) ==
  /\ At(s, "deleteAttachment", "mw")
  /\ checkAttachmentPermission(s, "load")

deleteAttachment_load(s) ==
  /\ At(s, "deleteAttachment", "load")
  /\ LET r == reqs[s] IN
     IF r.aid \notin DOMAIN attachments THEN Fail(s, 404)
     ELSE IF ~isOwnerOrAdmin(attachments[r.aid], r.user) THEN Fail(s, 403)
     ELSE /\ reqs' = [reqs EXCEPT ![s].pc = "destroy",
                                  ![s].n = attachments[r.aid].publicId]
          /\ UNCHANGED <<resp, db, ids, now, started, gone, accepted, storage, auth>>

\* cloudinary.v2.uploader.destroy(attachment.publicId): the object is removed
\* (ok) or the call throws, which the catch block turns into a 500.
deleteAttachment_destroy(s, ok) ==
  /\ At(s, "deleteAttachment", "destroy")
  /\ IF ok
       THEN /\ storage' = storage \ {reqs[s].n}
            /\ Goto(s, "delete")
            /\ UNCHANGED <<db, ids, now, started, gone, accepted,
                 auth>>
       ELSE Fail(s, 500)

\* Attachment.findByIdAndDelete, then the 200 response.
deleteAttachment_delete(s) ==
  /\ At(s, "deleteAttachment", "delete")
  /\ attachments' = [a \in (DOMAIN attachments) \ {reqs[s].aid} |-> attachments[a]]
  /\ Finish(s, 200)
  /\ UNCHANGED <<projects, issues, comments, ids, now, started, gone, accepted, storage, auth>>

\* ------------------------------------------------------------- forgotPassword
\* crypto.createHash("sha256").update(token).digest("hex")
sha256(token) == <<"sha256", token>>

\* The life of a reset token, in the unit of the clock.
ResetTTL == 1

\* user.getResetPasswordToken(): a fresh token, whose hash and expiry are set on
\* the document; the token itself is returned.
getResetPasswordToken(user, token) ==
  [user EXCEPT !.resetPasswordToken = sha256(token),
               !.resetPasswordExpire = now + ResetTTL]

\* User.findOne({ email }), 404 when there is none.
forgotPassword_load(s) ==
  /\ At(s, "forgotPassword", "load")
  /\ LET r == reqs[s] IN
     IF \A u \in Users : emailOf(u) # r.arg THEN Fail(s, 404)
     ELSE /\ reqs' = [reqs EXCEPT
                 ![s].pc = "save",
                 ![s].user = CHOOSE u \in Users : emailOf(u) = r.arg]
          /\ UNCHANGED <<resp, db, ids, now, started, gone, accepted, storage, auth>>

\* getResetPasswordToken() and user.save({ validateBeforeSave: false }): the
\* two fields are $set on the stored document.
forgotPassword_save(s) ==
  /\ At(s, "forgotPassword", "save")
  /\ LET r == reqs[s]
         resetToken == inbox.issued + 1
         user == getResetPasswordToken(users[r.user], resetToken)
     IN /\ users' = [users EXCEPT
               ![r.user].resetPasswordToken = user.resetPasswordToken,
               ![r.user].resetPasswordExpire = user.resetPasswordExpire]
        /\ inbox' = [inbox EXCEPT !.issued = resetToken]
        /\ reqs' = [reqs EXCEPT ![s].pc = "mail", ![s].tok = resetToken]
  /\ UNCHANGED <<resp, db, ids, now, started, gone, accepted, storage>>

\* sendEmail: the mail with the token is delivered and the request answers 200,
\* or the send throws and the catch block runs.
forgotPassword_mail(s, ok) ==
  /\ At(s, "forgotPassword", "mail")
  /\ IF ok
       THEN /\ inbox' = [inbox EXCEPT !.tokens = @ \cup {reqs[s].tok},
                                      !.last[reqs[s].user] = "sent"]
            /\ Finish(s, 200)
            /\ UNCHANGED <<db, ids, now, started, gone, accepted, storage, users>>
       ELSE /\ Goto(s, "rollback")
            /\ UNCHANGED <<db, ids, now, started, gone, accepted, storage, auth>>

forgotPassword_rollbackKeepToken(s) ==
  /\ At(s, "forgotPassword", "rollback")
  /\ inbox' = [inbox EXCEPT !.last[reqs[s].user] = "failed"]
  /\ Finish(s, 500)
  /\ UNCHANGED <<db, ids, now, started, gone, accepted, storage, users>>

\* The catch block: both fields set to undefined, user.save(), then the 500.
forgotPassword_rollback(s) ==
  /\ At(s, "forgotPassword", "rollback")
  /\ users' = [users EXCEPT ![reqs[s].user].resetPasswordToken = NoToken,
                            ![reqs[s].user].resetPasswordExpire = NoExpire]
  /\ inbox' = [inbox EXCEPT !.last[reqs[s].user] = "failed"]
  /\ Finish(s, 500)
  /\ UNCHANGED <<db, ids, now, started, gone, accepted, storage>>

\* -------------------------------------------------------------- resetPassword
\* User.findOne({ resetPasswordToken: <hash of the parameter>,
\* resetPasswordExpire: { $gt: Date.now() } }), 400 when there is none.
resetPassword_load(s) ==
  /\ At(s, "resetPassword", "load")
  /\ LET r == reqs[s]
         found == {u \in Users : /\ users[u].resetPasswordToken = sha256(r.tok)
                                 /\ users[u].resetPasswordExpire > now}
     IN IF found = {} THEN Fail(s, 400)
        ELSE /\ reqs' = [reqs EXCEPT ![s].pc = "save",
                                     ![s].user = CHOOSE u \in found : TRUE]
             /\ UNCHANGED <<resp, db, ids, now, started, gone, accepted, storage, auth>>

\* The new password set, both reset fields unset, user.save(), then the 200.
resetPassword_save(s) ==
  /\ At(s, "resetPassword", "save")
  /\ users' = [users EXCEPT ![reqs[s].user] =
                 [password |-> "reset", resetPasswordToken |-> NoToken,
                  resetPasswordExpire |-> NoExpire]]
  /\ Finish(s, 200)
  /\ UNCHANGED <<db, ids, now, started, gone, accepted, storage, inbox>>

\* ------------------------------------------------------------------- requests
\* A request arrives on slot s.  Sequentially (race = FALSE) it arrives when no
\* request is in flight; in the concurrent specification it arrives on any free
\* slot, MaxConcRequests requests in all.
Launch(s, req, race) ==
  /\ IF race THEN ~InFlight(s) /\ started < MaxConcRequests
             ELSE s = 1 /\ \A t \in Slots : ~InFlight(t)
  /\ reqs' = [reqs EXCEPT ![s] = req]
  /\ resp' = [resp EXCEPT ![s] = NoResponse]
  /\ started' = IF race THEN started + 1 ELSE started
  /\ UNCHANGED <<db, ids, now, gone, accepted,
                 storage, auth>>

Pending(op) == Cardinality({t \in Slots : reqs[t].op = op})

ProjectIds(race) == 1..(IF race THEN MaxRaceProjects ELSE MaxProjects)
IssueIds(race) == 1..(IF race THEN MaxRaceIssues ELSE MaxIssues)
Tokens == 1..MaxTokens

StartCreateProject(s, race) ==
  \E u \in Creators, k \in ReqKeys :
    /\ nextPid + Pending("createProject")
         <= (IF race THEN MaxRaceProjects ELSE MaxProjects)
    /\ Launch(s, [Idle EXCEPT !.op = "createProject", !.pc = "findKey",
                              !.user = u, !.key = k], race)

StartUpdateProject(s, race) ==
  \E u \in Users, p \in ProjectIds(race), k \in ReqKeys \cup {Undefined} :
    Launch(s, [Idle EXCEPT !.op = "updateProject", !.pc = "mw", !.user = u,
                           !.pid = p, !.key = k], race)

StartDeleteProject(s, race) ==
  \E u \in Users, p \in ProjectIds(race) :
    Launch(s, [Idle EXCEPT !.op = "deleteProject", !.pc = "mw", !.user = u,
                           !.pid = p], race)

StartInviteMember(s, race) ==
  \E u \in Users, p \in ProjectIds(race), e \in Emails :
    /\ nextTok + Pending("inviteMember") <= MaxTokens
    /\ Launch(s, [Idle EXCEPT !.op = "inviteMember", !.pc = "mw", !.user = u,
                              !.pid = p, !.arg = e], race)

StartAcceptInvitation(s, race) ==
  \E u \in Users, tk \in Tokens :
    Launch(s, [Idle EXCEPT !.op = "acceptInvitation", !.pc = "load", !.user = u,
                           !.tok = tk], race)

StartRemoveMember(s, race) ==
  \E u \in Users, p \in ProjectIds(race), m \in Users :
    Launch(s, [Idle EXCEPT !.op = "removeMember", !.pc = "mw", !.user = u,
                           !.pid = p, !.arg = m], race)

StartCreateIssue(s, race) ==
  \E u \in Users, p \in ProjectIds(race), a \in Users \cup {Undefined} :
    /\ nextIid + Pending("createIssue") <= (IF race THEN MaxRaceIssues ELSE MaxIssues)
    /\ Launch(s, [Idle EXCEPT !.op = "createIssue", !.pc = "mw", !.user = u,
                              !.pid = p, !.arg = a], race)

StartUpdateIssue(s, race) ==
  \E u \in Users, i \in IssueIds(race), st \in ReqStatuses \cup {Undefined},
     a \in Users \cup {NoUser, Undefined} :
    Launch(s, [Idle EXCEPT !.op = "updateIssue", !.pc = "mw", !.user = u,
                           !.iid = i, !.status = st, !.arg = a], race)

\* The same route with a dueDate key in the body: a date or an explicit null.
StartUpdateIssueDue(s, race) ==
  \E u \in Users, i \in IssueIds(race), st \in ReqStatuses \cup {Undefined},
     a \in Users \cup {NoUser, Undefined}, d \in DueDates \cup {NoDate} :
    Launch(s, [Idle EXCEPT !.op = "updateIssue", !.pc = "mw", !.user = u,
                           !.iid = i, !.status = st, !.arg = a, !.dueDate = d], race)

StartAssignIssue(s, race) ==
  \E u \in Users, i \in IssueIds(race), a \in Users \cup {NoUser} :
    Launch(s, [Idle EXCEPT !.op = "assignIssue", !.pc = "mw", !.user = u,
                           !.iid = i, !.arg = a], race)

StartUpdateIssueStatus(s, race) ==
  \E u \in Users, i \in IssueIds(race), st \in ReqStatuses :
    Launch(s, [Idle EXCEPT !.op = "updateIssueStatus", !.pc = "mw", !.user = u,
                           !.iid = i, !.status = st], race)

StartDeleteIssue(s, race) ==
  \E u \in Users, i \in IssueIds(race) :
    Launch(s, [Idle EXCEPT !.op = "deleteIssue", !.pc = "mw", !.user = u,
                           !.iid = i], race)

AttachmentIds == 1..MaxAttachments

\* req.body.attachments: absent, or a list of one or two attachment ids.
AttachmentLists ==
  {<<>>} \cup {<<a>> : a \in AttachmentIds}
         \cup {<<a, b>> : a \in AttachmentIds, b \in AttachmentIds}

StartCreateComment(s, race) ==
  \E u \in Users, i \in IssueIds(race), al \in AttachmentLists :
    /\ nextCid + Pending("createComment") <= MaxComments
    /\ Launch(s, [Idle EXCEPT !.op = "createComment", !.pc = "mw", !.user = u,
                              !.iid = i, !.atts = al], race)

StartDeleteComment(s, race) ==
  \E u \in Users, c \in 1..MaxComments :
    Launch(s, [Idle EXCEPT !.op = "deleteComment", !.pc = "mw", !.user = u,
                           !.cid = c], race)

StartGetComment(s, race) ==
  \E u \in Users, c \in 1..MaxComments :
    Launch(s, [Idle EXCEPT !.op = "getComment", !.pc = "mw", !.user = u,
                           !.cid = c], race)

StartUpdateComment(s, race) ==
  \E u \in Users, c \in 1..MaxComments, content \in {Undefined, "edited"},
     h \in BOOLEAN, al \in AttachmentLists :
    /\ ~h => al = <<>>
    /\ \A d \in DOMAIN comments : comments[d].v < MaxCommentEdits
    /\ Launch(s, [Idle EXCEPT !.op = "updateComment", !.pc = "mw", !.user = u,
                              !.cid = c, !.arg = content, !.hasAtts = h,
                              !.atts = al], race)

StartUploadAttachment(s, race) ==
  \E u \in Users, f \in {"file", Undefined}, sz \in ReqSizes, mt \in ReqTypes :
    /\ nextAid + Pending("uploadAttachment") <= MaxAttachments
    /\ Launch(s, [Idle EXCEPT !.op = "uploadAttachment", !.pc = "upload", !.user = u,
                              !.arg = f, !.size = sz, !.mimetype = mt], race)

StartDeleteAttachment(s, race) ==
  \E u \in Users, a \in AttachmentIds :
    Launch(s, [Idle EXCEPT !.op = "deleteAttachment", !.pc = "mw", !.user = u,
                           !.aid = a], race)

\* A request of the password-reset routes: they interleave at their database
\* round trips, MaxAuthRequests in all.
LaunchAuth(s, req) ==
  /\ ~InFlight(s) /\ started < MaxAuthRequests
  /\ reqs' = [reqs EXCEPT ![s] = req]
  /\ resp' = [resp EXCEPT ![s] = NoResponse]
  /\ started' = started + 1
  /\ UNCHANGED <<db, ids, now, gone, accepted, storage, auth>>

\* req.body.email: the address of a registered user, or of nobody.
ReqEmails == {emailOf(u) : u \in Users} \cup {"nobody@x.com"}

StartForgotPassword(s) ==
  \E e \in ReqEmails :
    /\ inbox.issued + Pending("forgotPassword") < MaxResets
    /\ LaunchAuth(s, [Idle EXCEPT !.op = "forgotPassword", !.pc = "load", !.arg = e])

\* The token of the link: one that a mail delivered, or one never issued (0).
StartResetPassword(s) ==
  \E t \in inbox.tokens \cup {0} :
    LaunchAuth(s, [Idle EXCEPT !.op = "resetPassword", !.pc = "load", !.tok = t])

\* Time passes to a later instant.  The clock is read once per request (at the
\* load step of inviteMember and acceptInvitation), so between sequential
\* requests is the only place where its advance can be told apart.
Tick ==
  /\ \A s \in Slots : ~InFlight(s)
  /\ \E t \in Instants : t > now /\ now' = t
  /\ UNCHANGED <<db, ids, reqs, resp, started, gone, accepted,
                 storage, auth>>

\* ------------------------------------------------------------- specifications
Quiet ==
  /\ reqs = [s \in Slots |-> Idle]
  /\ resp = [s \in Slots |-> NoResponse]
  /\ started = 0
  /\ gone = <<>>
  /\ nextAid = 1
  /\ storage = {}
  /\ users = [u \in Users |-> Registered]
  /\ inbox = [issued |-> 0, tokens |-> {}, last |-> [u \in Users |-> "none"]]

\* The store of a fresh deployment.
InitEmpty ==
  /\ projects = <<>> /\ issues = <<>> /\ comments = <<>> /\ attachments = <<>>
  /\ nextPid = 1 /\ nextIid = 1 /\ nextCid = 1 /\ nextTok = 1
  /\ now = 0
  /\ accepted = {}
  /\ Quiet

\* The store after alice created project DEMO and bob and carol accepted her
\* invitations (two pushes and two accepts: __v = 4), reached in SpecMembers.
TeamProject ==
  [key |-> "DEMO", owner |-> "alice", member |-> <<"alice", "bob", "carol">>,
   pendingInvites |-> <<>>, v |-> 4]

InitTeam ==
  /\ projects = (1 :> TeamProject)
  /\ issues = <<>> /\ comments = <<>> /\ attachments = <<>>
  /\ nextPid = 2 /\ nextIid = 1 /\ nextCid = 1 /\ nextTok = 3
  /\ now = 0
  /\ accepted = {1, 2}
  /\ Quiet

ProjectSteps(s) ==
  \/ createProject_find(s) \/ createProject_create(s)
  \/ updateProject_mw(s) \/ updateProject_load(s) \/ updateProject_find(s)
  \/ updateProject_save(s)
  \/ deleteProject_mw(s) \/ deleteProject_load(s) \/ deleteProject_issues(s)
  \/ deleteProject_delete(s)
  \/ inviteMember_mw(s) \/ inviteMember_load(s) \/ inviteMember_save(s)
  \/ (\E ok \in BOOLEAN : inviteMember_email(s, ok)) \/ inviteMember_rollback(s)
  \/ acceptInvitation_load(s) \/ acceptInvitation_save(s)
  \/ removeMember_mw(s) \/ removeMember_load(s) \/ removeMember_save(s)

IssueSteps(s) ==
  \/ createIssue_mw(s) \/ createIssue_load(s) \/ createIssue_count(s)
  \/ createIssue_create(s)
  \/ updateIssue_mw(s) \/ updateIssue_load(s) \/ updateIssue_save(s)
  \/ assignIssue_mw(s) \/ assignIssue_load(s) \/ assignIssue_save(s)
  \/ updateIssueStatus_mw(s) \/ updateIssueStatus_load(s) \/ updateIssueStatus_save(s)
  \/ deleteIssue_mw(s) \/ deleteIssue_load(s) \/ deleteIssue_comments(s)
  \/ deleteIssue_attachments(s) \/ deleteIssue_delete(s)
  \/ createComment_mw(s) \/ createComment_load(s) \/ createComment_validate(s)
  \/ createComment_create(s) \/ createComment_save(s)

\* Membership: the project handlers, one request at a time, from a fresh store.
NextMembers ==
  \/ \E s \in Slots :
       \/ StartCreateProject(s, FALSE) \/ StartUpdateProject(s, FALSE)
       \/ StartDeleteProject(s, FALSE) \/ StartInviteMember(s, FALSE)
       \/ StartAcceptInvitation(s, FALSE) \/ StartRemoveMember(s, FALSE)
       \/ ProjectSteps(s)
  \/ Tick

SpecMembers == InitEmpty /\ [][NextMembers]_vars

\* Issues and comments of the team project, one request at a time.
Next ==
  \E s \in Slots :
    \/ StartRemoveMember(s, FALSE)
    \/ StartCreateIssue(s, FALSE) \/ StartUpdateIssue(s, FALSE)
    \/ StartAssignIssue(s, FALSE) \/ StartUpdateIssueStatus(s, FALSE)
    \/ StartDeleteIssue(s, FALSE) \/ StartCreateComment(s, FALSE)
    \/ removeMember_mw(s) \/ removeMember_load(s) \/ removeMember_save(s)
    \/ IssueSteps(s)

Spec == InitTeam /\ [][Next]_vars

\* The store after alice created project DEMO, bob accepted her invitation (token
\* 1) and reported issue DEMO-1, and carol's invitation (token 2, sent at day 0)
\* is pending: __v = 3.
RaceProject ==
  [key |-> "DEMO", owner |-> "alice", member |-> <<"alice", "bob">>,
   pendingInvites |-> <<[email |-> "carol@x.com", token |-> 2,
                         expiresAt |-> InviteTTL]>>,
   v |-> 3]

RaceIssue ==
  [key |-> <<"DEMO", 1>>, projectId |-> 1, reporter |-> "bob", assignee |-> NoUser,
   status |-> "todo", dueDate |-> NoDate, comments |-> <<>>, attachments |-> <<>>]

InitRace ==
  /\ projects = (1 :> RaceProject)
  /\ issues = (1 :> RaceIssue)
  /\ comments = <<>> /\ attachments = <<>>
  /\ nextPid = 2 /\ nextIid = 2 /\ nextCid = 1 /\ nextTok = 3
  /\ now = 0
  /\ accepted = {1}
  /\ Quiet

\* Requests interleaving at their database round trips: two in flight at most,
\* MaxConcRequests in all.
NextRace ==
  \E s \in Slots :
    \/ StartCreateIssue(s, TRUE) \/ StartDeleteProject(s, TRUE)
    \/ StartDeleteIssue(s, TRUE) \/ StartCreateComment(s, TRUE)
    \/ StartAcceptInvitation(s, TRUE)
    \/ createIssue_mw(s) \/ createIssue_load(s) \/ createIssue_count(s)
    \/ createIssue_create(s)
    \/ deleteProject_mw(s) \/ deleteProject_load(s) \/ deleteProject_issues(s)
    \/ deleteProject_delete(s)
    \/ deleteIssue_mw(s) \/ deleteIssue_load(s) \/ deleteIssue_comments(s)
    \/ deleteIssue_attachments(s) \/ deleteIssue_delete(s)
    \/ createComment_mw(s) \/ createComment_load(s) \/ createComment_validate(s)
    \/ createComment_create(s) \/ createComment_save(s)
    \/ acceptInvitation_load(s) \/ acceptInvitation_save(s)

SpecRace == InitRace /\ [][NextRace]_vars

\* Project keys under concurrency: createProject and updateProject interleaving
\* on a store that holds alice's project DEMO.
KeysProject ==
  [key |-> "DEMO", owner |-> "alice", member |-> <<"alice">>, pendingInvites |-> <<>>,
   v |-> 0]

InitKeys ==
  /\ projects = (1 :> KeysProject)
  /\ issues = <<>> /\ comments = <<>> /\ attachments = <<>>
  /\ nextPid = 2 /\ nextIid = 1 /\ nextCid = 1 /\ nextTok = 1
  /\ now = 0
  /\ accepted = {}
  /\ Quiet

NextKeys ==
  \E s \in Slots :
    \/ StartCreateProject(s, TRUE) \/ StartUpdateProject(s, TRUE)
    \/ createProject_find(s) \/ createProject_create(s)
    \/ updateProject_mw(s) \/ updateProject_load(s) \/ updateProject_find(s)
    \/ updateProject_save(s)

SpecKeys == InitKeys /\ [][NextKeys]_vars

\* Issue keys: createIssue and deleteIssue requests of the team project, one
\* after another on one connection, MaxConcRequests in all.
NextIssueKeys ==
  \/ StartCreateIssue(1, TRUE) \/ StartDeleteIssue(1, TRUE)
  \/ createIssue_mw(1) \/ createIssue_load(1) \/ createIssue_count(1)
  \/ createIssue_create(1)
  \/ deleteIssue_mw(1) \/ deleteIssue_load(1) \/ deleteIssue_comments(1)
  \/ deleteIssue_attachments(1) \/ deleteIssue_delete(1)

SpecIssueKeys == InitTeam /\ [][NextIssueKeys]_vars

\* Invitations under concurrency: inviteMember requests interleaving on alice's
\* project DEMO.
NextInvites ==
  \E s \in Slots :
    \/ StartInviteMember(s, TRUE)
    \/ inviteMember_mw(s) \/ inviteMember_load(s) \/ inviteMember_save(s)
    \/ (\E ok \in BOOLEAN : inviteMember_email(s, ok)) \/ inviteMember_rollback(s)

SpecInvites == InitKeys /\ [][NextInvites]_vars

\* Attachments: uploads, comments carrying them, and the three deletions, one
\* request at a time, on the team project with bob's issue DEMO-1.
InitAttach ==
  /\ projects = (1 :> TeamProject)
  /\ issues = (1 :> RaceIssue)
  /\ comments = <<>> /\ attachments = <<>>
  /\ nextPid = 2 /\ nextIid = 2 /\ nextCid = 1 /\ nextTok = 3
  /\ now = 0
  /\ accepted = {1, 2}
  /\ Quiet

NextAttach ==
  \E s \in Slots :
    \/ StartUploadAttachment(s, FALSE) \/ StartDeleteAttachment(s, FALSE)
    \/ StartCreateComment(s, FALSE) \/ StartDeleteComment(s, FALSE)
    \/ StartDeleteIssue(s, FALSE)
    \/ (\E ok \in BOOLEAN : uploadAttachment_upload(s, ok)) \/ uploadAttachment_create(s)
    \/ deleteAttachment_mw(s) \/ deleteAttachment_load(s)
    \/ (\E ok \in BOOLEAN : deleteAttachment_destroy(s, ok)) \/ deleteAttachment_delete(s)
    \/ createComment_mw(s) \/ createComment_load(s) \/ createComment_validate(s)
    \/ createComment_create(s) \/ createComment_save(s)
    \/ deleteComment_mw(s) \/ deleteComment_load(s) \/ deleteComment_pull(s)
    \/ deleteComment_attachments(s) \/ deleteComment_delete(s)
    \/ deleteIssue_mw(s) \/ deleteIssue_load(s) \/ deleteIssue_comments(s)
    \/ deleteIssue_attachments(s) \/ deleteIssue_delete(s)

SpecAttach == InitAttach /\ [][NextAttach]_vars

\* Comments of bob's issue DEMO-1 in the team project: created, read, updated
\* and deleted while members are removed, one request at a time.
NextComments ==
  \E s \in Slots :
    \/ StartRemoveMember(s, FALSE) \/ StartUploadAttachment(s, FALSE)
    \/ StartCreateComment(s, FALSE) \/ StartGetComment(s, FALSE)
    \/ StartUpdateComment(s, FALSE) \/ StartDeleteComment(s, FALSE)
    \/ removeMember_mw(s) \/ removeMember_load(s) \/ removeMember_save(s)
    \/ (\E ok \in BOOLEAN : uploadAttachment_upload(s, ok)) \/ uploadAttachment_create(s)
    \/ createComment_mw(s) \/ createComment_load(s) \/ createComment_validate(s)
    \/ createComment_create(s) \/ createComment_save(s)
    \/ getComment_mw(s) \/ getComment_load(s)
    \/ updateComment_mw(s) \/ updateComment_load(s) \/ updateComment_validate(s)
    \/ updateComment_save(s)
    \/ deleteComment_mw(s) \/ deleteComment_load(s) \/ deleteComment_pull(s)
    \/ deleteComment_attachments(s) \/ deleteComment_delete(s)

SpecComments == InitAttach /\ [][NextComments]_vars

\* Updates of bob's issue DEMO-1 in the team project, with every combination of
\* status, assignee and dueDate present, null or omitted, one request at a time.
NextFields ==
  \E s \in Slots :
    \/ StartUpdateIssue(s, FALSE) \/ StartUpdateIssueDue(s, FALSE)
    \/ updateIssue_mw(s) \/ updateIssue_load(s) \/ updateIssue_save(s)

SpecFields == InitAttach /\ [][NextFields]_vars

\* Password resets of the three registered users.
InitAuth == InitEmpty

NextAuth ==
  \/ Tick
  \/ \E s \in Slots :
       \/ StartForgotPassword(s) \/ StartResetPassword(s)
       \/ forgotPassword_load(s) \/ forgotPassword_save(s)
       \/ (\E ok \in BOOLEAN : forgotPassword_mail(s, ok)) \/ forgotPassword_rollback(s)
       \/ resetPassword_load(s) \/ resetPassword_save(s)

SpecAuth == InitAuth /\ [][NextAuth]_vars

\* The requests of the routes that name a project, an issue, a comment or an
\* attachment by id, with the inputs of the Start actions above.
ScopedRequests ==
  LET R(op) == [Idle EXCEPT !.op = op, !.pc = "mw"] IN
  {[R("updateProject") EXCEPT !.user = u, !.pid = p, !.key = k] :
     u \in Users, p \in ProjectIds(FALSE), k \in ReqKeys \cup {Undefined}}
  \cup {[R(op) EXCEPT !.user = u, !.pid = p] :
     op \in {"deleteProject"}, u \in Users, p \in ProjectIds(FALSE)}
  \cup {[R("removeMember") EXCEPT !.user = u, !.pid = p, !.arg = m] :
     u \in Users, p \in ProjectIds(FALSE), m \in Users}
  \cup {[R("createIssue") EXCEPT !.user = u, !.pid = p, !.arg = a] :
     u \in Users, p \in ProjectIds(FALSE), a \in Users \cup {Undefined}}
  \cup {[R("updateIssue") EXCEPT !.user = u, !.iid = i, !.status = st, !.arg = a] :
     u \in Users, i \in IssueIds(FALSE), st \in ReqStatuses \cup {Undefined},
     a \in Users \cup {NoUser, Undefined}}
  \cup {[R("assignIssue") EXCEPT !.user = u, !.iid = i, !.arg = a] :
     u \in Users, i \in IssueIds(FALSE), a \in Users \cup {NoUser}}
  \cup {[R("updateIssueStatus") EXCEPT !.user = u, !.iid = i, !.status = st] :
     u \in Users, i \in IssueIds(FALSE), st \in ReqStatuses}
  \cup {[R("deleteIssue") EXCEPT !.user = u, !.iid = i] :
     u \in Users, i \in IssueIds(FALSE)}
  \cup {[R("createComment") EXCEPT !.user = u, !.iid = i, !.atts = al] :
     u \in Users, i \in IssueIds(FALSE), al \in AttachmentLists}
  \cup {[R(op) EXCEPT !.user = u, !.cid = c] :
     op \in {"getComment", "deleteComment"}, u \in Users, c \in 1..MaxComments}
  \cup {[R("updateComment") EXCEPT !.user = u, !.cid = c, !.arg = content,
                                   !.hasAtts = (al # <<>>), !.atts = al] :
     u \in Users, c \in 1..MaxComments, content \in {Undefined, "edited"},
     al \in AttachmentLists}
  \cup {[R("deleteAttachment") EXCEPT !.user = u, !.aid = a] :
     u \in Users, a \in AttachmentIds}
  \cup {[Idle EXCEPT !.op = "uploadAttachment", !.pc = "upload", !.user = u,
                     !.arg = "file", !.size = maxSize, !.mimetype = "image/png"] :
     u \in Users}

\* One request after another, MaxScopedRequests in all; the creating routes
\* within the bounds on their collections.
StartScoped(s) ==
  \E req \in ScopedRequests :
    /\ s = 1 /\ \A t \in Slots : ~InFlight(t)
    /\ started < MaxScopedRequests
    /\ req.op = "createIssue" => nextIid <= MaxIssues
    /\ req.op = "createComment" => nextCid <= MaxComments
    /\ req.op = "uploadAttachment" => nextAid <= MaxAttachments
    /\ req.op = "updateComment"
         => \A d \in DOMAIN comments : comments[d].v < MaxCommentEdits
    /\ reqs' = [reqs EXCEPT ![s] = req]
    /\ resp' = [resp EXCEPT ![s] = NoResponse]
    /\ started' = started + 1
    /\ UNCHANGED <<db, ids, now, gone, accepted, storage, auth>>

\* Every route that names a project, an issue, a comment or an attachment by id,
\* on the team project: resources are created and deleted, so ids resolve at
\* some times and not at others.
NextScoped ==
  \E s \in Slots :
    \/ StartScoped(s)
    \/ updateProject_mw(s) \/ updateProject_load(s) \/ updateProject_find(s)
    \/ updateProject_save(s)
    \/ deleteProject_mw(s) \/ deleteProject_load(s) \/ deleteProject_issues(s)
    \/ deleteProject_delete(s)
    \/ removeMember_mw(s) \/ removeMember_load(s) \/ removeMember_save(s)
    \/ IssueSteps(s)
    \/ getComment_mw(s) \/ getComment_load(s)
    \/ updateComment_mw(s) \/ updateComment_load(s) \/ updateComment_validate(s)
    \/ updateComment_save(s)
    \/ deleteComment_mw(s) \/ deleteComment_load(s) \/ deleteComment_pull(s)
    \/ deleteComment_attachments(s) \/ deleteComment_delete(s)
    \/ (\E ok \in BOOLEAN : uploadAttachment_upload(s, ok)) \/ uploadAttachment_create(s)
    \/ deleteAttachment_mw(s) \/ deleteAttachment_load(s)
    \/ (\E ok \in BOOLEAN : deleteAttachment_destroy(s, ok)) \/ deleteAttachment_delete(s)

SpecScoped == InitTeam /\ [][NextScoped]_vars

\* Issue keys over a longer history: createIssue, deleteIssue and updateProject
\* requests of the team project with bob's issue DEMO-1, one after another,
\* MaxSeqRequests in all.
StartIssueSeq(s) ==
  \E req \in
       {[Idle EXCEPT !.op = "createIssue", !.pc = "mw", !.user = u, !.pid = p,
                     !.arg = a] :
          u \in Users, p \in ProjectIds(FALSE), a \in Users \cup {Undefined}}
       \cup {[Idle EXCEPT !.op = "deleteIssue", !.pc = "mw", !.user = u, !.iid = i] :
          u \in Users, i \in IssueIds(TRUE)}
       \cup {[Idle EXCEPT !.op = "updateProject", !.pc = "mw", !.user = u,
                          !.pid = p, !.key = k] :
          u \in Users, p \in ProjectIds(FALSE), k \in ReqKeys \cup {Undefined}} :
    /\ s = 1 /\ \A t \in Slots : ~InFlight(t)
    /\ started < MaxSeqRequests
    /\ req.op = "createIssue" => nextIid <= MaxRaceIssues
    /\ reqs' = [reqs EXCEPT ![s] = req]
    /\ resp' = [resp EXCEPT ![s] = NoResponse]
    /\ started' = started + 1
    /\ UNCHANGED <<db, ids, now, gone, accepted, storage, auth>>

NextIssueSeq ==
  \E s \in Slots :
    \/ StartIssueSeq(s)
    \/ createIssue_mw(s) \/ createIssue_load(s) \/ createIssue_count(s)
    \/ createIssue_create(s)
    \/ deleteIssue_mw(s) \/ deleteIssue_load(s) \/ deleteIssue_comments(s)
    \/ deleteIssue_attachments(s) \/ deleteIssue_delete(s)
    \/ updateProject_mw(s) \/ updateProject_load(s) \/ updateProject_find(s)
    \/ updateProject_save(s)

SpecIssueSeq == InitAttach /\ [][NextIssueSeq]_vars

\* Invitations over time.  The store after alice's two simultaneous invitations
\* of bob@x.com to her project DEMO, at day 0, were both saved (reached in
\* SpecInvites): two pending invites for one email, __v = 2.
TwiceInvitedProject ==
  [key |-> "DEMO", owner |-> "alice", member |-> <<"alice">>,
   pendingInvites |-> <<[email |-> "bob@x.com", token |-> 1, expiresAt |-> InviteTTL],
                        [email |-> "bob@x.com", token |-> 2, expiresAt |-> InviteTTL]>>,
   v |-> 2]

InitTwiceInvited ==
  /\ projects = (1 :> TwiceInvitedProject)
  /\ issues = <<>> /\ comments = <<>> /\ attachments = <<>>
  /\ nextPid = 2 /\ nextIid = 1 /\ nextCid = 1 /\ nextTok = 3
  /\ now = 0
  /\ accepted = {}
  /\ Quiet

StartInviteAgain(s) ==
  \E u \in Users, p \in ProjectIds(FALSE), e \in Emails :
    /\ nextTok <= MaxInviteTokens
    /\ Launch(s, [Idle EXCEPT !.op = "inviteMember", !.pc = "mw", !.user = u,
                              !.pid = p, !.arg = e], FALSE)

\* inviteMember, acceptInvitation and removeMember requests one after another,
\* days passing between them.
NextInviteAgain ==
  \/ \E s \in Slots :
       \/ StartInviteAgain(s) \/ StartAcceptInvitation(s, FALSE)
       \/ StartRemoveMember(s, FALSE)
       \/ inviteMember_mw(s) \/ inviteMember_load(s) \/ inviteMember_save(s)
       \/ (\E ok \in BOOLEAN : inviteMember_email(s, ok)) \/ inviteMember_rollback(s)
       \/ acceptInvitation_load(s) \/ acceptInvitation_save(s)
       \/ removeMember_mw(s) \/ removeMember_load(s) \/ removeMember_save(s)
  \/ Tick

SpecInviteAgain == InitTwiceInvited /\ [][NextInviteAgain]_vars

\* --------------------------------------------------------------------- claims
\* C1: in every reachable state the owner of every project is an element of its
\* member list; a successful createProject stores a project whose member list is
\* exactly the creator, who is its owner.  Checked in SpecMembers, where
\* updateProject, inviteMember, acceptInvitation and removeMember save.
C1_OwnerInMembers ==
  /\ [](\A p \in DOMAIN projects : isMemberOf(projects[p], projects[p].owner))
  /\ [][\A s \in Slots :
          (createProject_create(s) /\ resp'[s].code = 201)
            => /\ projects'[nextPid].member = <<reqs[s].user>>
               /\ projects'[nextPid].owner = reqs[s].user]_vars

\* C1 case: removeMember saved a project that still has two members.
C1_RemovedMemberSaved ==
  /\ resp[1].op = "removeMember" /\ resp[1].code = 200
  /\ \E p \in DOMAIN projects : Len(projects[p].member) >= 2

\* C2: in every reachable state the assignee of an issue, when non-null, is a
\* current member of the issue's project.
C2_AssigneeIsMember ==
  \A i \in DOMAIN issues :
    issues[i].assignee # NoUser
      => /\ issues[i].projectId \in DOMAIN projects
         /\ isMemberOf(projects[issues[i].projectId], issues[i].assignee)

\* C3: no two stored issues have the same key, under every interleaving of
\* concurrent createIssue requests.
C3_UniqueIssueKeys ==
  \A i, j \in DOMAIN issues : i # j => issues[i].key # issues[j].key

\* C3 case: two createIssue requests read the same count; one created the issue
\* and the other was rejected by the index.
C3_RacedCreates ==
  /\ resp[1].op = "createIssue" /\ resp[2].op = "createIssue"
  /\ {resp[1].code, resp[2].code} = {201, 500}

\* C4: after a deleteProject completed (the project is no longer stored, which
\* in SpecRace only deleteProject brings about) no issue carries its projectId.
C4_NoIssueOfDeletedProject ==
  \A i \in DOMAIN issues : issues[i].projectId \in DOMAIN projects

\* C5: after a deleteIssue completed there is no comment with that issueId and
\* no attachment record whose id was in the issue's attachments list.
C5_NoCommentOfDeletedIssue ==
  \A i \in DOMAIN gone :
    /\ \A c \in DOMAIN comments : comments[c].issueId # i
    /\ \A a \in Range(gone[i]) : a \notin DOMAIN attachments

\* C6: an acceptInvitation by the invited user whose own pending invite has
\* expiresAt <= now ends with 400 and leaves every project as it was.
C6_ExpiredTokenRejected ==
  [][\A s \in Slots :
       (/\ reqs[s].op = "acceptInvitation"
        /\ reqs'[s].pc = "idle"
        /\ \E p \in DOMAIN projects : \E i \in 1..Len(projects[p].pendingInvites) :
             /\ projects[p].pendingInvites[i].token = reqs[s].tok
             /\ projects[p].pendingInvites[i].email = emailOf(reqs[s].user)
             /\ projects[p].pendingInvites[i].expiresAt <= now)
         => (resp'[s].code = 400 /\ projects' = projects)]_vars

\* C7: an assign request by a current member of the issue's project, naming a
\* current member or null, ends with 200 and the issue has that assignee.
C7_AnyMemberMayAssign ==
  [][\A s \in Slots :
       (/\ reqs[s].op = "assignIssue"
        /\ reqs'[s].pc = "idle"
        /\ reqs[s].iid \in DOMAIN issues
        /\ LET project == projects[issues[reqs[s].iid].projectId]
           IN /\ isMemberOf(project, reqs[s].user)
              /\ (reqs[s].arg = NoUser \/ isMemberOf(project, reqs[s].arg)))
         => /\ resp'[s].code = 200
            /\ reqs[s].iid \in DOMAIN issues'
            /\ issues'[reqs[s].iid].assignee = reqs[s].arg]_vars

\* C8: a status request changes an issue only when the requester is the issue's
\* assignee; made by anyone else on a stored issue it ends with 403 and changes
\* no issue; while an updateIssue carrying a valid status, made by the owner or
\* by the reporter (a current member, as every update requires), ends with 200
\* and the issue has that status.
C8_StatusByAssigneeOnly ==
  [][\A s \in Slots :
       /\ (reqs[s].op = "updateIssueStatus" /\ issues' # issues)
            => /\ reqs[s].iid \in DOMAIN issues
               /\ issues[reqs[s].iid].assignee = reqs[s].user
       /\ (/\ reqs[s].op = "updateIssueStatus"
           /\ reqs'[s].pc = "idle"
           /\ reqs[s].iid \in DOMAIN issues
           /\ issues[reqs[s].iid].assignee # reqs[s].user)
            => (resp'[s].code = 403 /\ issues' = issues)
       /\ (/\ reqs[s].op = "updateIssue"
           /\ reqs'[s].pc = "idle"
           /\ reqs[s].iid \in DOMAIN issues
           /\ reqs[s].status \in Statuses
           /\ LET project == projects[issues[reqs[s].iid].projectId]
              IN /\ isMemberOf(project, reqs[s].user)
                 /\ (project.owner = reqs[s].user
                       \/ issues[reqs[s].iid].reporter = reqs[s].user)
                 /\ (reqs[s].arg \in {Undefined, NoUser}
                       \/ isMemberOf(project, reqs[s].arg)))
            => /\ resp'[s].code = 200
               /\ issues'[reqs[s].iid].status = reqs[s].status]_vars

\* C8 case: the owner, who is not the assignee, was refused the status change
\* of an issue that her updateIssue had set to done.
C8_OwnerRefused ==
  /\ resp[1] = [op |-> "updateIssueStatus", user |-> "alice", code |-> 403]
  /\ \E i \in DOMAIN issues :
       /\ issues[i].assignee # "alice"
       /\ issues[i].reporter = "bob"
       /\ issues[i].status = "done"

\* C9: a deleteIssue request changes the stored issues, comments or attachments
\* only when the requester is the owner of the issue's project or the issue's
\* reporter; made by anyone else on a stored issue it ends with 403 and the
\* issue, its comments and its attachments remain.
C9_DeleteByOwnerOrReporter ==
  [][\A s \in Slots :
       /\ (reqs[s].op = "deleteIssue" /\ db' # db)
            => /\ reqs[s].iid \in DOMAIN issues
               /\ \/ projects[issues[reqs[s].iid].projectId].owner = reqs[s].user
                  \/ issues[reqs[s].iid].reporter = reqs[s].user
       /\ (/\ reqs[s].op = "deleteIssue"
           /\ reqs'[s].pc = "idle"
           /\ reqs[s].iid \in DOMAIN issues
           /\ projects[issues[reqs[s].iid].projectId].owner # reqs[s].user
           /\ issues[reqs[s].iid].reporter # reqs[s].user)
            => (resp'[s].code = 403 /\ db' = db)]_vars

\* C9 case: the assignee of a commented issue, neither owner nor reporter, was
\* refused its deletion.
C9_AssigneeRefused ==
  /\ resp[1].op = "deleteIssue" /\ resp[1].code = 403
  /\ \E i \in DOMAIN issues :
       /\ issues[i].assignee = resp[1].user
       /\ issues[i].reporter # resp[1].user
       /\ issues[i].comments # <<>>

\* C10: no member list holds a user twice, and a user whose acceptInvitation
\* ended with 200 is in the project's member list exactly once, under every
\* interleaving of concurrent acceptInvitation requests with the same token.
C10_AcceptedOnce ==
  \A p \in DOMAIN projects :
    /\ \A u \in Users :
         Cardinality({i \in 1..Len(projects[p].member) : projects[p].member[i] = u}) <= 1
    /\ \A s \in Slots :
         (resp[s].op = "acceptInvitation" /\ resp[s].code = 200)
           => isMemberOf(projects[p], resp[s].user)

\* C10 case: two accepts of the same token by carol were both past their load;
\* one saved and the other's save was refused.
C10_RacedAccepts ==
  /\ resp[1].op = "acceptInvitation" /\ resp[2].op = "acceptInvitation"
  /\ resp[1].user = "carol" /\ resp[2].user = "carol"
  /\ {resp[1].code, resp[2].code} = {200, 500}
  /\ \E p \in DOMAIN projects : isMemberOf(projects[p], "carol")

\* C11: an acceptInvitation with a token whose acceptInvitation has already
\* ended with 200 ends with 400 and leaves every project (its member list
\* included) as it was.
C11_ConsumedTokenRejected ==
  [][\A s \in Slots :
       (/\ reqs[s].op = "acceptInvitation"
        /\ reqs'[s].pc = "idle"
        /\ reqs[s].tok \in accepted)
         => (resp'[s].code = 400 /\ projects' = projects)]_vars

\* C11 case: every token has been accepted and a further accept was refused.
C11_SecondAcceptRefused ==
  /\ accepted = Tokens
  /\ resp[1].op = "acceptInvitation" /\ resp[1].code = 400
  /\ \E p \in DOMAIN projects : isMemberOf(projects[p], resp[1].user)

\* C12: an acceptInvitation with a pending, unexpired token ends with 403 and
\* leaves every project as it was (nobody added, the invite still pending) when
\* the requester's email is not the invite's; made by the invited user it ends
\* with 200, the user a member and the invite no longer pending.
C12_WrongEmailForbidden ==
  [][\A s \in Slots : \A p \in DOMAIN projects :
       \A i \in 1..Len(projects[p].pendingInvites) :
         (/\ reqs[s].op = "acceptInvitation"
          /\ reqs'[s].pc = "idle"
          /\ projects[p].pendingInvites[i].token = reqs[s].tok
          /\ projects[p].pendingInvites[i].expiresAt > now)
           => IF projects[p].pendingInvites[i].email # emailOf(reqs[s].user)
                THEN resp'[s].code = 403 /\ projects' = projects
                ELSE /\ resp'[s].code = 200
                     /\ isMemberOf(projects'[p], reqs[s].user)
                     /\ \A j \in 1..Len(projects'[p].pendingInvites) :
                          projects'[p].pendingInvites[j].token # reqs[s].tok]_vars

\* C12 case: an accept was refused for its email and the invite, unexpired, is
\* still pending for somebody else.
C12_InviteKept ==
  /\ resp[1].op = "acceptInvitation" /\ resp[1].code = 403
  /\ \E p \in DOMAIN projects : \E i \in 1..Len(projects[p].pendingInvites) :
       /\ projects[p].pendingInvites[i].expiresAt > now
       /\ projects[p].pendingInvites[i].email # emailOf(resp[1].user)

\* C13: no two stored projects have the same key, under every interleaving of
\* createProject and updateProject; a key is stored as the upper-case form of
\* the key supplied; and a createProject, or an updateProject carrying a key
\* other than the key of the project it read, that ends while another project
\* holds the upper-cased key has failed and changed no project.
C13_UniqueUpperKeys ==
  /\ [](\A p, q \in DOMAIN projects : p # q => projects[p].key # projects[q].key)
  /\ [][\A s \in Slots :
          /\ (createProject_create(s) /\ resp'[s].code = 201)
               => projects'[nextPid].key = toUpperCase(reqs[s].key)
          /\ (reqs[s].op = "updateProject" /\ reqs'[s] # reqs[s] /\ projects' # projects)
               => /\ reqs[s].key # Undefined
                  /\ projects'[reqs[s].pid].key = toUpperCase(reqs[s].key)
          /\ (/\ reqs[s].op = "createProject"
              /\ reqs'[s].pc = "idle"
              /\ \E p \in DOMAIN projects : projects[p].key = toUpperCase(reqs[s].key))
               => (resp'[s].code \in {400, 500} /\ projects' = projects)
          /\ (/\ reqs[s].op = "updateProject"
              /\ reqs'[s].pc = "idle"
              /\ reqs[s].key # Undefined
              /\ reqs[s].proj # <<>>
              /\ reqs[s].proj[1].key # toUpperCase(reqs[s].key)
              /\ \E p \in (DOMAIN projects) \ {reqs[s].pid} :
                   projects[p].key = toUpperCase(reqs[s].key))
               => (resp'[s].code \in {400, 403, 404, 500} /\ projects' = projects)]_vars

\* C13 case: a createProject and an updateProject raced for the same key; the
\* create stored it and the update, past its own check, was rejected by the index.
C13_RacedKeys ==
  \E s, u \in Slots :
    /\ resp[s].op = "createProject" /\ resp[s].code = 201
    /\ resp[u].op = "updateProject" /\ resp[u].code = 500
    /\ \E p \in DOMAIN projects : projects[p].key = "OPS"

\* C14: while no issue has been deleted, the k-th issue created in the project
\* by createIssue requests made one after another gets the key
\* <project.key>-k: DEMO-1, then DEMO-2.
C14_SequentialIssueKeys ==
  [][\A s \in Slots :
       (createIssue_create(s) /\ resp'[s].code = 201 /\ gone = <<>>)
         => /\ Cardinality(DOMAIN issues) = nextIid - 1
            /\ issues'[nextIid].key = <<projects[reqs[s].pid].key, nextIid>>]_vars

\* C14 case: two issues were created one after the other.
C14_TwoIssuesCreated ==
  /\ gone = <<>>
  /\ DOMAIN issues = {1, 2}
  /\ issues[1].key = <<"DEMO", 1>> /\ issues[2].key = <<"DEMO", 2>>

\* C15: a createIssue by a project member, an updateIssue by a member who is
\* owner, reporter or assignee, and an assignIssue by a project member, each
\* naming a non-null assignee who is not in the project's member list, end with
\* 400 and leave the stored issues as they were (no issue created, no field
\* changed).
C15_NonMemberAssigneeRejected ==
  [][\A s \in Slots :
       LET r == reqs[s]
           known == IF r.op = "createIssue" THEN r.pid \in DOMAIN projects
                    ELSE r.iid \in DOMAIN issues
           project == IF r.op = "createIssue" THEN projects[r.pid]
                      ELSE projects[issues[r.iid].projectId]
       IN (/\ r.op \in {"createIssue", "updateIssue", "assignIssue"}
           /\ reqs'[s].pc = "idle"
           /\ r.arg \in Users
           /\ known
           /\ ~isMemberOf(project, r.arg)
           /\ isMemberOf(project, r.user)
           /\ r.op = "updateIssue"
                => \/ project.owner = r.user
                   \/ issues[r.iid].reporter = r.user
                   \/ issues[r.iid].assignee = r.user)
            => (resp'[s].code = 400 /\ issues' = issues)]_vars

\* C16: in every reachable state, concurrent inviteMember requests included, no
\* project holds two pending invites with the same email.
C16_OneInvitePerEmail ==
  \A p \in DOMAIN projects :
    \A i, j \in 1..Len(projects[p].pendingInvites) :
      i # j => projects[p].pendingInvites[i].email # projects[p].pendingInvites[j].email

\* C17: an inviteMember whose mail send failed ends with 500, and when it has
\* ended the project's pendingInvites holds no entry with the token the request
\* generated, its other pending invites and its member list being what they
\* were (the save before the send having added only that entry).
C17_FailedMailRolledBack ==
  [][\A s \in Slots :
       LET r == reqs[s] IN
       /\ (inviteMember_save(s) /\ reqs'[s].pc = "email")
            => /\ projects'[r.pid].member = projects[r.pid].member
               /\ SelectSeq(projects'[r.pid].pendingInvites,
                            LAMBDA inv : inv.token # r.tok)
                    = projects[r.pid].pendingInvites
       /\ (r.op = "inviteMember" /\ r.pc = "rollback" /\ reqs'[s].pc = "idle")
            => /\ resp'[s].code = 500
               /\ r.pid \in DOMAIN projects
               /\ projects'[r.pid].member = projects[r.pid].member
               /\ projects'[r.pid].pendingInvites
                    = SelectSeq(projects[r.pid].pendingInvites,
                                LAMBDA inv : inv.token # r.tok)]_vars

\* C18: a deleteComment that ends with 200 leaves no comment of that id, the id
\* in no issue's comments list, and of every attachment the comment linked
\* neither the metadata record nor the stored object.
C18_CommentDeletedWithAttachments ==
  [][\A s \in Slots :
       (At(s, "deleteComment", "delete") /\ reqs'[s] # reqs[s] /\ resp'[s].code = 200)
         => /\ reqs[s].cid \notin DOMAIN comments'
            /\ \A i \in DOMAIN issues' :
                 \A k \in 1..Len(issues'[i].comments) :
                   issues'[i].comments[k] # reqs[s].cid
            /\ \A a \in Range(reqs[s].comment[1].attachment) :
                 a \notin DOMAIN attachments' /\ a \notin storage']_vars

\* C19: a step that deletes an attachment's metadata record is taken only when
\* the attachment's stored object is already gone from object storage, and a
\* deleteAttachment whose storage delete fails ends with 500, the record kept.
C19_StorageDeletedFirst ==
  [][/\ \A a \in DOMAIN attachments :
          a \notin DOMAIN attachments' => attachments[a].publicId \notin storage
     /\ \A s \in Slots :
          (/\ At(s, "deleteAttachment", "destroy")
           /\ reqs'[s] # reqs[s]
           /\ storage' = storage
           /\ reqs[s].n \in storage)
            => (resp'[s].code = 500 /\ attachments' = attachments)]_vars

\* C20: a deleteAttachment request changes the attachment records or the object
\* storage only when the requester is the attachment's uploader or has the role
\* admin; made by anyone else on a stored attachment it ends with 403 and both
\* the record and the stored object remain.
C20_DeleteByUploaderOrAdmin ==
  [][\A s \in Slots :
       /\ (/\ reqs[s].op = "deleteAttachment"
           /\ (attachments' # attachments \/ storage' # storage))
            => /\ reqs[s].aid \in DOMAIN attachments
               /\ \/ attachments[reqs[s].aid].uploadedBy = reqs[s].user
                  \/ roleOf(reqs[s].user) = "admin"
       /\ (/\ reqs[s].op = "deleteAttachment"
           /\ reqs'[s].pc = "idle"
           /\ reqs[s].aid \in DOMAIN attachments
           /\ attachments[reqs[s].aid].uploadedBy # reqs[s].user
           /\ roleOf(reqs[s].user) # "admin")
            => /\ resp'[s].code = 403
               /\ attachments' = attachments
               /\ storage' = storage]_vars

\* C20 case: a user who is neither the uploader of a stored attachment nor an
\* admin was refused its deletion.
C20_StrangerRefused ==
  /\ resp[1].op = "deleteAttachment" /\ resp[1].code = 403
  /\ roleOf(resp[1].user) # "admin"
  /\ \E a \in DOMAIN attachments :
       /\ attachments[a].uploadedBy # resp[1].user
       /\ attachments[a].publicId \in storage

\* C21: a createComment whose attachment list holds an id that is not an
\* attachment uploaded by the requester ends its validation with 400, no comment
\* created and no issue changed; a comment is created only for a list whose ids
\* all are the requester's attachments; and a createComment that ends with 201
\* has appended the new comment's id to the issue's comments list.
C21_AttachmentsAllOrNothing ==
  [][\A s \in Slots :
       /\ (/\ At(s, "createComment", "validate")
           /\ reqs'[s] # reqs[s]
           /\ \E k \in 1..Len(reqs[s].atts) :
                \/ reqs[s].atts[k] \notin DOMAIN attachments
                \/ attachments[reqs[s].atts[k]].uploadedBy # reqs[s].user)
            => (resp'[s].code = 400 /\ comments' = comments /\ issues' = issues)
       /\ (reqs[s].op = "createComment" /\ reqs'[s] # reqs[s] /\ comments' # comments)
            => \A k \in 1..Len(reqs[s].atts) :
                 /\ reqs[s].atts[k] \in DOMAIN attachments
                 /\ attachments[reqs[s].atts[k]].uploadedBy = reqs[s].user
       /\ (reqs[s].op = "createComment" /\ reqs'[s] # reqs[s] /\ resp'[s].code = 201)
            => /\ reqs[s].cid \in DOMAIN comments'
               /\ issues'[reqs[s].iid].comments =
                    Append(issues[reqs[s].iid].comments, reqs[s].cid)]_vars

\* C21 case: with one attachment of the requester and one of another user
\* stored, a createComment was rejected with 400 and no comment exists.
C21_MixedListRejected ==
  /\ resp[1].op = "createComment" /\ resp[1].code = 400
  /\ comments = <<>>
  /\ \E a, b \in DOMAIN attachments :
       /\ attachments[a].uploadedBy = resp[1].user
       /\ attachments[b].uploadedBy # resp[1].user
  /\ \A i \in DOMAIN issues : issues[i].comments = <<>>

\* C22: an updateComment or deleteComment request changes stored state only
\* when the requester is the owner of the comment's project or the comment's
\* author; made by anyone else on a stored comment it ends with 403 and nothing
\* stored changes; and a getComment by a current member of the project on a
\* stored comment ends with 200.
C22_CommentWriteByOwnerOrAuthor ==
  [][\A s \in Slots :
       /\ (/\ reqs[s].op \in {"updateComment", "deleteComment"}
           /\ reqs'[s] # reqs[s]
           /\ db' # db)
            => /\ reqs[s].cid \in DOMAIN comments
               /\ \/ projects[issues[comments[reqs[s].cid].issueId].projectId].owner
                       = reqs[s].user
                  \/ comments[reqs[s].cid].author = reqs[s].user
       /\ (/\ reqs[s].op \in {"updateComment", "deleteComment"}
           /\ reqs'[s].pc = "idle"
           /\ reqs[s].cid \in DOMAIN comments
           /\ projects[issues[comments[reqs[s].cid].issueId].projectId].owner
                # reqs[s].user
           /\ comments[reqs[s].cid].author # reqs[s].user)
            => (resp'[s].code = 403 /\ db' = db)
       /\ (/\ reqs[s].op = "getComment"
           /\ reqs'[s].pc = "idle"
           /\ reqs[s].cid \in DOMAIN comments
           /\ isMemberOf(projects[issues[comments[reqs[s].cid].issueId].projectId],
                         reqs[s].user))
            => resp'[s].code = 200]_vars

\* C22 case: a member who is neither the owner nor the author of a stored
\* comment was answered its GET with 200.
C22_MemberReadsForeignComment ==
  /\ resp[1].op = "getComment" /\ resp[1].code = 200
  /\ \E c \in DOMAIN comments :
       /\ comments[c].author # resp[1].user
       /\ projects[issues[comments[c].issueId].projectId].owner # resp[1].user
       /\ isMemberOf(projects[issues[comments[c].issueId].projectId], resp[1].user)

\* C23: a removeMember request changes a project only when the requester is
\* its owner and the target is another current member, and then it removes the
\* target from the member list; on a stored project a requester who is not the
\* owner gets 403, the owner naming themselves gets 400, the owner naming a
\* user who is not a member gets 404, and in each case no project changes.
C23_RemoveMemberGuards ==
  [][\A s \in Slots :
       (reqs[s].op = "removeMember" /\ reqs'[s] # reqs[s])
         => /\ projects' # projects
                 => /\ reqs[s].pid \in DOMAIN projects
                    /\ projects[reqs[s].pid].owner = reqs[s].user
                    /\ reqs[s].arg # reqs[s].user
                    /\ isMemberOf(projects[reqs[s].pid], reqs[s].arg)
                    /\ ~isMemberOf(projects'[reqs[s].pid], reqs[s].arg)
                    /\ Len(projects'[reqs[s].pid].member)
                         = Len(projects[reqs[s].pid].member) - 1
            /\ (reqs'[s].pc = "idle" /\ reqs[s].pid \in DOMAIN projects)
                 => LET project == projects[reqs[s].pid] IN
                    /\ project.owner # reqs[s].user
                         => (resp'[s].code = 403 /\ projects' = projects)
                    /\ (project.owner = reqs[s].user /\ reqs[s].arg = reqs[s].user)
                         => (resp'[s].code = 400 /\ projects' = projects)
                    /\ (/\ project.owner = reqs[s].user
                        /\ reqs[s].arg # reqs[s].user
                        /\ ~isMemberOf(project, reqs[s].arg))
                         => (resp'[s].code = 404 /\ projects' = projects)]_vars

\* C23 case: the owner's removal of a user who is no longer a member was
\* answered 404, the other members still listed.
C23_AbsentTargetNotFound ==
  /\ resp[1].op = "removeMember" /\ resp[1].code = 404
  /\ \E p \in DOMAIN projects :
       /\ projects[p].owner = resp[1].user
       /\ Len(projects[p].member) = 2
       /\ \E u \in Users : ~isMemberOf(projects[p], u)

\* C24: an updateIssue that ends with 200 leaves status, assignee and dueDate
\* at their previous values when the request omits them, sets assignee and
\* dueDate to null when the request carries an explicit null, and no updateIssue
\* step changes an issue's key, reporter, projectId or comments.
C24_PartialUpdate ==
  [][\A s \in Slots :
       (reqs[s].op = "updateIssue" /\ reqs'[s] # reqs[s])
         => /\ DOMAIN issues' = DOMAIN issues
            /\ \A i \in DOMAIN issues :
                 /\ issues'[i].key = issues[i].key
                 /\ issues'[i].reporter = issues[i].reporter
                 /\ issues'[i].projectId = issues[i].projectId
                 /\ issues'[i].comments = issues[i].comments
                 /\ i # reqs[s].iid => issues'[i] = issues[i]
            /\ (resp'[s].code = 200 /\ reqs'[s].pc = "idle")
                 => LET old == issues[reqs[s].iid]
                        new == issues'[reqs[s].iid]
                    IN /\ reqs[s].status = Undefined => new.status = old.status
                       /\ reqs[s].arg = Undefined => new.assignee = old.assignee
                       /\ reqs[s].dueDate = Undefined => new.dueDate = old.dueDate
                       /\ reqs[s].arg = NoUser => new.assignee = NoUser
                       /\ reqs[s].dueDate = NoDate => new.dueDate = NoDate
                       /\ reqs[s].status # Undefined => new.status = reqs[s].status
                       /\ reqs[s].dueDate # Undefined => new.dueDate = reqs[s].dueDate]_vars

\* C24 case: an update carrying explicit nulls for assignee and dueDate and no
\* status has made its assignments on an issue that was done, assigned and
\* dated: status kept, assignee and dueDate null, the save about to be sent.
C24_NullsSetStatusKept ==
  /\ At(1, "updateIssue", "save")
  /\ reqs[1].status = Undefined /\ reqs[1].arg = NoUser /\ reqs[1].dueDate = NoDate
  /\ issues[reqs[1].iid].status = "done"
  /\ issues[reqs[1].iid].assignee # NoUser
  /\ issues[reqs[1].iid].dueDate # NoDate
  /\ reqs[1].issue[1].status = "done"
  /\ reqs[1].issue[1].assignee = NoUser
  /\ reqs[1].issue[1].dueDate = NoDate

\* C25: an uploadAttachment creates a metadata record only for a file that
\* is present, at most 25 MiB and of an allowed type, and whose object is in
\* object storage; a request failing validation ends with 400, object storage
\* and records untouched; and when the storage upload fails the request ends
\* with 500 and no record is created.
C25_RecordOnlyAfterStoredUpload ==
  [][\A s \in Slots :
       (reqs[s].op = "uploadAttachment" /\ reqs'[s] # reqs[s])
         => /\ attachments' # attachments
                 => /\ reqs[s].arg # Undefined
                    /\ reqs[s].size <= 25 * 1024 * 1024
                    /\ reqs[s].mimetype \in {"image/jpeg", "image/png", "image/gif",
                                             "application/pdf", "video/mp4"}
                    /\ reqs[s].aid \in storage
                    /\ DOMAIN attachments' = DOMAIN attachments \cup {reqs[s].aid}
                    /\ attachments'[reqs[s].aid].publicId = reqs[s].aid
            /\ (/\ reqs[s].pc = "upload"
                /\ \/ reqs[s].arg = Undefined
                   \/ reqs[s].size > 25 * 1024 * 1024
                   \/ reqs[s].mimetype \notin {"image/jpeg", "image/png", "image/gif",
                                               "application/pdf", "video/mp4"})
                 => /\ resp'[s].code = 400
                    /\ storage' = storage
                    /\ attachments' = attachments
            /\ (reqs[s].pc = "upload" /\ resp'[s].code # 400 /\ storage' = storage)
                 => /\ resp'[s].code = 500
                    /\ reqs'[s].pc = "idle"
                    /\ attachments' = attachments]_vars

\* C25 case: an upload of a valid file ended with 500 because object storage
\* refused it, and no metadata record and no stored object exist.
C25_FailedUploadLeavesNothing ==
  /\ resp[1].op = "uploadAttachment" /\ resp[1].code = 500
  /\ attachments = <<>>
  /\ storage = {}

\* C26: a forgotPassword whose mail send failed ends with 500 and leaves the
\* user's reset token and its expiry unset, and no resetPassword lookup finds a
\* user whose last finished forgotPassword failed; under every interleaving of
\* forgotPassword and resetPassword requests.
C26_FailedMailClearsResetToken ==
  [][\A s \in Slots :
       /\ (At(s, "forgotPassword", "rollback") /\ reqs'[s] # reqs[s])
            => /\ resp'[s].code = 500
               /\ users'[reqs[s].user].resetPasswordToken = NoToken
               /\ users'[reqs[s].user].resetPasswordExpire = NoExpire
       /\ (reqs[s].op = "forgotPassword" /\ reqs'[s] # reqs[s] /\ resp'[s].code = 500)
            => reqs[s].pc = "rollback"
       /\ (At(s, "resetPassword", "load") /\ reqs'[s].pc = "save")
            => inbox.last[reqs'[s].user] # "failed"]_vars

\* C26 case: after a reset mail had been delivered, a forgotPassword of the same
\* kind failed at the mail send with 500, the user's token and expiry are unset,
\* and a resetPassword was refused.
C26_ResetRefusedAfterFailedMail ==
  \E s, t \in Slots :
    /\ resp[s].op = "forgotPassword" /\ resp[s].code = 500
    /\ users[resp[s].user].resetPasswordToken = NoToken
    /\ users[resp[s].user].resetPasswordExpire = NoExpire
    /\ inbox.last[resp[s].user] = "failed"
    /\ inbox.tokens # {}
    /\ resp[t].op = "resetPassword" /\ resp[t].code = 400

\* C27: a request of a route that names a project, an issue, a comment or an
\* attachment by id, arriving when the id is not that of a stored resource,
\* ends at its first lookup with 404, whoever the requester is, and nothing
\* stored changes.
C27_MissingResourceNotFound ==
  [][\A s \in Slots :
       LET r == reqs[s]
           unresolved ==
             \/ /\ r.op \in {"updateProject", "deleteProject", "removeMember",
                             "createIssue"}
                /\ r.pid \notin DOMAIN projects
             \/ /\ r.op \in {"updateIssue", "assignIssue", "updateIssueStatus",
                             "deleteIssue", "createComment"}
                /\ r.iid \notin DOMAIN issues
             \/ /\ r.op \in {"getComment", "updateComment", "deleteComment"}
                /\ r.cid \notin DOMAIN comments
             \/ /\ r.op = "deleteAttachment"
                /\ r.aid \notin DOMAIN attachments
       IN (r.pc = "mw" /\ reqs'[s] # r /\ unresolved)
            => /\ resp'[s].code = 404
               /\ reqs'[s].pc = "idle"
               /\ db' = db
               /\ storage' = storage]_vars

\* C27 case: the owner of the project asked to update an issue that had been
\* deleted and was answered 404.
C27_OwnerOnDeletedIssue ==
  /\ resp[1].op = "updateIssue" /\ resp[1].code = 404
  /\ \E p \in DOMAIN projects : projects[p].owner = resp[1].user
  /\ issues = <<>>
  /\ gone # <<>>

\* C28: a request to update, assign, change the status of or delete an issue,
\* or to update or delete a comment, changes issues or comments only when the
\* requester is at that moment a member of the project the issue or comment
\* belongs to.
C28_NoWriteByFormerMember ==
  [][\A s \in Slots :
       /\ (/\ reqs[s].op \in {"updateIssue", "assignIssue", "updateIssueStatus",
                              "deleteIssue"}
           /\ reqs'[s] # reqs[s]
           /\ (issues' # issues \/ comments' # comments)
           /\ reqs[s].iid \in DOMAIN issues
           /\ issues[reqs[s].iid].projectId \in DOMAIN projects)
            => isMemberOf(projects[issues[reqs[s].iid].projectId], reqs[s].user)
       /\ (/\ reqs[s].op \in {"updateComment", "deleteComment"}
           /\ reqs'[s] # reqs[s]
           /\ (issues' # issues \/ comments' # comments)
           /\ reqs[s].cid \in DOMAIN comments
           /\ comments[reqs[s].cid].issueId \in DOMAIN issues
           /\ issues[comments[reqs[s].cid].issueId].projectId \in DOMAIN projects)
            => isMemberOf(projects[issues[comments[reqs[s].cid].issueId].projectId],
                          reqs[s].user)]_vars

\* C29: a createIssue request of a project member with valid input, running with
\* no other request in flight, ends 201: when it reaches Issue.create, no issue
\* in the store has the key derived from the count it read.
C29_SequentialCreateSucceeds ==
  [][\A s \in Slots :
       (createIssue_create(s) /\ \A t \in Slots \ {s} : ~InFlight(t))
         => /\ resp'[s].code = 201
            /\ \A i \in DOMAIN issues : issues[i].key # newIssue(s).key]_vars

\* C30: a pending invite of a project that stays in the store leaves
\* pendingInvites only in the save of a successful acceptInvitation with its
\* token or in the rollback of the inviteMember that created it; and an
\* inviteMember of the owner for an email that has an expired pending invite on
\* the project is refused by the pending-invite check ('Invitation already sent
\* to this email': 400, the email not being a member's) and changes nothing.
C30_ExpiredInviteBlocksEmail ==
  [][/\ \A p \in DOMAIN projects \cap DOMAIN projects' :
          \A i \in 1..Len(projects[p].pendingInvites) :
            LET inv == projects[p].pendingInvites[i] IN
            (~\E j \in 1..Len(projects'[p].pendingInvites) :
                 projects'[p].pendingInvites[j].token = inv.token)
              => \E s \in Slots :
                   /\ reqs[s].tok = inv.token
                   /\ \/ acceptInvitation_save(s) /\ resp'[s].code = 200
                      \/ inviteMember_rollback(s)
     /\ \A s \in Slots :
          LET r == reqs[s] IN
          (/\ inviteMember_load(s)
           /\ r.pid \in DOMAIN projects
           /\ isProjectOwner(projects[r.pid], r.user)
           /\ \E i \in 1..Len(projects[r.pid].pendingInvites) :
                /\ projects[r.pid].pendingInvites[i].email = r.arg
                /\ projects[r.pid].pendingInvites[i].expiresAt <= now)
            => /\ resp'[s].code = 400
               /\ projects' = projects
               /\ ~\E u \in userByEmail(r.arg) : isMemberOf(projects[r.pid], u)]_vars

====
